---- MODULE Spec2Model ----
(***************************************************************************)
(* A model of the shijim streaming pipeline: the in-process event buses    *)
(* (shijim/bus/event_bus.py), the ingestion worker                         *)
(* (shijim/recorder/ingestion.py) and the columnar writer                  *)
(* (shijim/recorder/clickhouse_writer.py).                                 *)
(*                                                                         *)
(* Each component has its own variables, initial condition, actions and    *)
(* specification; the actions of one component leave the variables of the  *)
(* others unchanged.                                                       *)
(***************************************************************************)
EXTENDS Integers, Sequences, FiniteSets, TLC

(***************************************************************************)
(* Bounds of the model.                                                    *)
(***************************************************************************)
\* InMemoryEventBus.max_queue_size / BroadcastEventBus.max_queue_size (configurable).
max_queue_size == 2
\* Events published on the queue bus in one run.
MaxPublish == 3
\* Longest list handed to one publish_many call.
MaxBatch == 2
\* subscribe(timeout=...) of the queue bus, in clock ticks.
Timeout == 2
\* Events published on the broadcast bus in one run.
MaxBPublish == 3
\* IngestionWorker.max_buffer_events: the buffer size that forces a flush.
max_buffer_events == 2
\* IngestionWorker.max_batch_events: the events taken in one pass of the inner loop.
max_batch_events == 2
\* async_queue_max_batches of both writers: the tasks their queues hold.
async_queue_max_batches == 1
\* The events the bus hands to the ingestion worker.
MaxEvents == 3
\* IngestionWorker.poll_timeout, in clock ticks.
PollTimeout == 2
\* ClickHouseWriter.flush_threshold: the buffer size that forces a flush.
flush_threshold == 2
\* The events given to the columnar writer.
MaxWritten == 2
\* The insert attempts of the columnar writer.
MaxAttempts == 3
\* deque(maxlen=FAILED_BATCH_HISTORY_LIMIT)
FAILED_BATCH_HISTORY_LIMIT == 32
\* The runs of the restore tool over the fallback directory.
MaxRestores == 2
\* RawWriter.max_events_per_file (configurable).
max_events_per_file == 2
\* RawWriter.max_file_size_bytes (configurable).
max_file_size_bytes == 3
\* The longest serialized line of a raw event, in bytes.
MaxLine == 2
\* The events given to the raw writer for one (trading day, symbol) partition.
MaxRawEvents == 4
\* SubscriptionManager.max_subscriptions: the per-session cap (configurable).
max_subscriptions == 1
\* The largest ConnectionPool.size, and the longest session list.
MaxPool == 2
\* The targets of a plan that survive filtering.
MaxPlan == 3
\* The calls of subscribe_universe in one run.
MaxUniverseCalls == 2
\* The calls of unsubscribe_all in one run.
MaxUnsubscribeCalls == 2
\* The slots of the ring (SLOT_COUNT is 1024 in ring_buffer.py; the index arithmetic
\* is the same for every capacity).
SLOT_COUNT == 2
\* The writes of the producer in one run: enough to lap a reader twice.
MaxCursor == 5
\* The prices of the top of book and of the resting order: 1..MaxPrice.
MaxPrice == 2
\* The bid and ask prices of the top of book given to the strategy: 1..MaxBid.
MaxBid == 3
\* The sizes of the top of book, and the quantity of the resting order: 1..MaxSize.
MaxSize == 1
\* StrategyConfig.chase_threshold ranges over 0..MaxThreshold.
MaxThreshold == 1
\* StrategyConfig.max_chase_round ranges over 0..MaxRound.
MaxRound == 1
\* The quantities of an order: 1..MaxQty.
MaxQty == 2
\* The orders of one RiskAwareGateway.send call.
MaxOrders == 2
\* RiskManagerConfig.max_order_qty (configurable).
max_order_qty == 1
\* RiskManagerConfig.max_position (configurable).
max_position == 2
\* RiskManagerConfig.price_deviation, in percent of the reference price (configurable).
price_deviation_pct == 50
\* RiskManagerConfig.max_orders_per_sec: rate and burst of the token bucket (configurable).
max_orders_per_sec == 2
\* The orders the broker accepts in one run; it names them 1..MaxPlaced.
MaxPlaced == 2
\* The events the worker of the synchronous recording path handles in one run.
MaxHandled == 3
\* The largest values of RetryPolicy: max_retries, base_delay, max_delay (both in
\* tenths of a second) and backoff_factor.
MaxRetries == 3
MaxBaseDelay == 2
MaxMaxDelay == 4
MaxBackoffFactor == 2
\* The largest universe and the largest number of worker shards.
MaxItems == 8
MaxShards == 5
\* The longest buffer a decoder wraps, the largest skip, and the largest block_size
\* and num_in_group a group header declares.
MaxBuffer == 12
MaxSkip == 3
MaxBlockSize == 3
MaxNumInGroup == 3

(***************************************************************************)
(* Shared vocabulary.                                                      *)
(***************************************************************************)
EventTypes == {"MD_TICK", "MD_BOOK"}
Wildcard == "*"
Topics == EventTypes \cup {Wildcard}

Min(a, b) == IF a <= b THEN a ELSE b

\* The last n elements of s (all of s when it is shorter).
LastN(s, n) == IF Len(s) <= n THEN s ELSE SubSeq(s, Len(s) - n + 1, Len(s))

IsPrefix(s, t) == Len(s) <= Len(t) /\ SubSeq(t, 1, Len(s)) = s

Range(s) == {s[i] : i \in 1..Len(s)}

NoDuplicates(s) == \A i, j \in 1..Len(s) : s[i] = s[j] => i = j

\* Sequences over S of length lo..hi.
SeqsOf(S, lo, hi) == UNION {[1..n -> S] : n \in lo..hi}

VARIABLES
    \* ---- InMemoryEventBus (competing consumers) ----
    queues,        \* _queues: topic -> deque of events
    published,     \* every event handed to publish / publish_many, in lock order
    popped,        \* per topic: the events taken by popleft in subscribe, in order
    pubAtFirstPop, \* per topic: Len of the topic's published events at its first pop (0: none yet)
    dropped,       \* per topic: how many events publish removed with popleft to make room
    subPc,         \* per subscriber: "unsub" | "ready" | "waiting"
    subTopic,      \* per subscriber: the topic given to subscribe
    subHasTimeout, \* per subscriber: whether subscribe got a timeout
    subNotified,   \* per subscriber: notify_all reached its Condition.wait
    subTimer,      \* per subscriber: ticks left of the running Condition.wait(timeout)
    subElapsed,    \* per subscriber: ticks since the pending next() was called
    observed,      \* per subscriber: the events its sequence yielded
    yieldedNone,   \* per subscriber: its sequence has yielded the heartbeat-null (None)
    \* ---- BroadcastEventBus (per-subscriber queues) ----
    subscriptions, \* _subscriptions: topic -> list of subscriber queues
    bQueue,        \* per subscriber: its queue.Queue(maxsize=max_queue_size)
    bState,        \* per subscriber: "none" | "created" (never advanced) | "iterating"
    bTopic,        \* per subscriber: the topic given to subscribe
    bHasTimeout,   \* per subscriber: whether subscribe got a timeout
    bObserved,     \* per subscriber: the events its sequence yielded
    bYieldedNone,  \* per subscriber: its sequence has yielded the heartbeat-null
    bDropped,      \* per subscriber: events a publisher removed with get_nowait to make room
    bFullSeen,     \* per subscriber: a put_nowait on its queue has raised queue.Full
    bLog,          \* every event handed to publish / publish_many, with the live subscribers of its topics
    pubPc,         \* per publisher: "idle" | "put" | "full" | "reput"
    pubWork,       \* per publisher: the (event, queue) pairs its call has still to put
    pubRaised,     \* per publisher: one of its calls ended with queue.Full raised
    \* ---- IngestionWorker and the async queues of its two writers ----
    wpc,           \* where run_forever stands
    stopEvent,     \* _stop_event.is_set()
    held,          \* what next(events) returned: an event, or <<>> for None
    batch_count,   \* batch_count of the inner loop
    ticks_buffer,  \* _ticks_buffer
    books_buffer,  \* _books_buffer
    fRet,          \* where the running flush() returns to
    fSnap,         \* the (ticks, books) snapshot of the running flush(), or <<>>
    fPending,      \* the writers whose write_batch the executor has still to run
    rawQ,          \* RawWriter._task_queue
    chQ,           \* ClickHouseWriter._task_queue
    rawHanded,     \* every (ticks, books) given to raw_writer.write_batch
    chHanded,      \* every (ticks, books) given to analytical_writer.write_batch
    buffered,      \* every event _handle_event appended to a buffer
    delivered,     \* how many events next(events) has returned
    wTimer,        \* clock ticks left of the Condition.wait(poll_timeout) in next(events)
    \* ---- ClickHouseWriter (synchronous path) ----
    fallback_dir,  \* "unset" before construction, then "none" or "path"
    tick_buffer,   \* _tick_buffer
    book_buffer,   \* _book_buffer
    fallbackFiles, \* <<kind, day>> -> the lines of <fallback>/<kind>/<day>.jsonl
    failed_batch_history, \* failed_batch_history: the FailedBatchMeta (kind, count) kept
    attempts,      \* every insert attempt: kind, batch and whether the insert succeeded
    written,       \* how many events write_batch has been given
    \* ---- restore_failed_batches (run_restore in apply mode) ----
    restored,      \* every row insert_events sent to the store for the tool, in order
    restoreRuns,   \* how many times run_restore has run
    restoredUpTo,  \* how many insert attempts the writer had made when run_restore last ran
    \* ---- RawWriter (synchronous path, one (trading day, symbol) partition) ----
    rawFiles,      \* md_events_NNNN.jsonl by index: the events and the bytes each file holds
    rawState,      \* _states[key]: <<>> when absent, else <<[index, event_count, bytes_written]>>
    rawEvents,     \* how many events write_event has been given
    \* ---- SubscriptionManager over a ConnectionPool ----
    poolSize,      \* pool.size (0 before construction)
    nSessions,     \* len(pool.sessions)
    plan,          \* the (asset_type, code) targets of the plan that survive filtering, in order
    subscribed,    \* _subscribed: key -> session_idx, or -1 when the key is absent
    subWork,       \* per worker thread: the targets of its bucket still to handle
    subWorkerPc,   \* per worker thread: "idle" | "check" | "subscribe"
    active,        \* per session: how many subscriptions the broker holds per (key, quote type)
    universeCalls, \* how many times subscribe_universe has been called
    unsubLog,      \* per unsubscribe_all call: the unsubscribe calls it issued, and whether one raised
    brokerRaised,  \* a get_contract or quote.subscribe call has raised
    \* ---- shared-memory ring buffer: one producer, one RingBufferReader ----
    write_cursor,  \* header: the u64 the producer publishes, 0 when nothing was written
    slots,         \* slot index -> [seq_num, payload]; a payload is named by the write that made it
    ppc,           \* producer: "idle" | "written" (slot written, cursor not yet incremented)
    rpc,           \* reader: "idle" | "latest" | "latest_bytes" | "holding" (a row was returned)
    rMethod,       \* the reader method in progress or last called
    rCursor,       \* the cursor that call asks for
    rSeen,         \* the seq_num read_at compared with the cursor
    rHanded,       \* <<>> or <<[method, cursor, seq_num, payload]>>: what the consumer last got
    rRaised,       \* <<>> or <<[error, cursor, seq_num]>>: what the last call raised
    \* ---- SmartChasingEngine with its OrderStateManager and OfiCalculator ----
    config,        \* StrategyConfig: [chase_threshold, max_chase_round]
    state,         \* order_manager.state: "none" before construction, else an OrderState
    chase_count,   \* order_manager.chase_count
    order_price,   \* the price of the resting order
    order_qty,     \* the quantity of the resting order
    prev_state,    \* ofi_calculator._prev_state: <<>> for None, else <<BboState>>
    logs,          \* SmartChasingEngine.logs
    lastTick,      \* <<>> or <<[state, chase_count, order_price, ofi, requests]>>: the engine
                   \* as the last on_tick found it, and what that call returned
    \* ---- RiskAwareGateway with its four guards ----
    gwPc,          \* "none" before construction, "idle", or "sending" inside the loop of send
    kill_active,   \* kill_switch.active
    ref_price,     \* finger_guard.ref_price
    position,      \* position_guard.position
    tokens,        \* rate_limiter.tokens, in whole tokens
    elapsed,       \* monotonic() - rate_limiter.last_refill, in tokens of refill
    valid,         \* send: the orders that passed so far
    sendLog,       \* per order of the current or last send: [order, tokens, reason]; reason
                   \* "" when it passed, tokens as _check found them
    innerReceived, \* what the last send gave to inner_gateway.send
    rejectEvents,  \* what the current or last send put on event_queue
    \* ---- NonBlockingOrderManager: execution thread and broker-callback thread ----
    orders,        \* self.orders: internal_id -> <<>> when absent, else <<OrderState>>
    xPc,           \* execution thread: "idle" | "place" | "set_status" | "cancel"
    xReq,          \* <<>> or <<req>>: the request send_order is handling
    cbPc,          \* callback thread: "idle" | "update"
    cbArgs,        \* the arguments of the update_from_callback call in progress
    cbTarget,      \* target_id of that call
    brokerOrders,  \* broker side: broker id -> <<>>, or <<[internal_id, status]>> with the
                   \* last status its callbacks reported ("none" before the first)
    lastCb,        \* <<>> or <<[broker_id, status, filled_qty, price, owner, late, before]>>:
                   \* the update_from_callback that has just returned: its arguments,
                   \* the internal id the broker holds the order for, whether the
                   \* adapter had not learnt the broker id, and the map before the call
    \* ---- IngestionWorker.flush with both writers on their synchronous paths ----
    pTicks,        \* IngestionWorker._ticks_buffer
    pBooks,        \* IngestionWorker._books_buffer
    pEntered,      \* the events of the batch being filled, in the order _handle_event got them
    pHandled,      \* how many events _handle_event has been given
    rawLines,      \* symbol -> the events written to the partition's file, in file order
    pChTicks,      \* ClickHouseWriter._tick_buffer
    pChBooks,      \* ClickHouseWriter._book_buffer
    inserts,       \* every insert sent: [table, rows, ok], rows in the order sent
    flushed,       \* every flushed batch: its events in the order they entered it
    \* ---- ClickHouseWriter over HTTP: one flush through _send_http ----
    retry_policy,  \* RetryPolicy: [max_retries, base_delay, max_delay, backoff_factor]
    hPc,           \* "new" | "idle" | "post" | "sleep"
    hAttempt,      \* attempt of the for loop in _send_http
    hBuffer,       \* whether the writer's buffer holds the batch
    hPosts,        \* the POSTs of the current or last flush: TRUE for a success
    hSleeps,       \* the time.sleep calls of the current or last flush
    hResult,       \* "none" | "sent" | "failed" (the batch went to _handle_failed_batch)
    \* ---- universe sharding: one deployment's workers slicing the same universe ----
    total_items,   \* len(items) of the universe every worker slices
    total_shards,  \* TOTAL_SHARDS of the deployment, 0 before it is configured
    shardSlices,   \* get_shard_indices of the workers asked so far: shard_id 0, 1, ...
    \* ---- SBEDecoder ----
    dPc,           \* "new" | "ready" | "group" (suspended at the yield of groups())
    dLimit,        \* _limit: len(buffer)
    dOffset,       \* _offset
    dBlockSize,    \* block_size of the group being iterated
    dGroupLeft,    \* entries of the group not yet passed
    dLast          \* the last read: [op, before, size, outcome]

qvars == <<queues, published, popped, pubAtFirstPop, dropped, subPc, subTopic, subHasTimeout,
           subNotified, subTimer, subElapsed, observed, yieldedNone>>

bvars == <<subscriptions, bQueue, bState, bTopic, bHasTimeout, bObserved, bYieldedNone,
           bDropped, bFullSeen, bLog, pubPc, pubWork, pubRaised>>

ivars == <<wpc, stopEvent, held, batch_count, ticks_buffer, books_buffer, fRet, fSnap,
           fPending, rawQ, chQ, rawHanded, chHanded, buffered, delivered, wTimer>>

cvars == <<fallback_dir, tick_buffer, book_buffer, fallbackFiles, failed_batch_history,
           attempts, written>>

tvars == <<restored, restoreRuns, restoredUpTo>>

rwvars == <<rawFiles, rawState, rawEvents>>

svars == <<poolSize, nSessions, plan, subscribed, subWork, subWorkerPc, active,
           universeCalls, unsubLog, brokerRaised>>

rbvars == <<write_cursor, slots, ppc, rpc, rMethod, rCursor, rSeen, rHanded, rRaised>>

evars == <<config, state, chase_count, order_price, order_qty, prev_state, logs, lastTick>>

gvars == <<gwPc, kill_active, ref_price, position, tokens, elapsed, valid, sendLog,
           innerReceived, rejectEvents>>

ovars == <<orders, xPc, xReq, cbPc, cbArgs, cbTarget, brokerOrders, lastCb>>

pvars == <<pTicks, pBooks, pEntered, pHandled, rawLines, pChTicks, pChBooks, inserts, flushed>>

hvars == <<retry_policy, hPc, hAttempt, hBuffer, hPosts, hSleeps, hResult>>

shvars == <<total_items, total_shards, shardSlices>>

dvars == <<dPc, dLimit, dOffset, dBlockSize, dGroupLeft, dLast>>

vars == <<qvars, bvars, ivars, cvars, tvars, rwvars, svars, rbvars, evars, gvars, ovars, pvars,
          hvars, shvars, dvars>>

\* What the actions of each component leave alone.
OtherThanQueueBus == <<bvars, ivars, cvars, tvars, rwvars, svars, rbvars, evars, gvars, ovars, pvars, hvars, shvars, dvars>>
OtherThanBroadcast == <<qvars, ivars, cvars, tvars, rwvars, svars, rbvars, evars, gvars, ovars, pvars, hvars, shvars, dvars>>
OtherThanIngestion == <<qvars, bvars, cvars, tvars, rwvars, svars, rbvars, evars, gvars, ovars, pvars, hvars, shvars, dvars>>
OtherThanWriter == <<qvars, bvars, ivars, tvars, rwvars, svars, rbvars, evars, gvars, ovars, pvars, hvars, shvars, dvars>>
OtherThanWriterAndRestore == <<qvars, bvars, ivars, rwvars, svars, rbvars, evars, gvars, ovars, pvars, hvars, shvars, dvars>>
OtherThanRawWriter == <<qvars, bvars, ivars, cvars, tvars, svars, rbvars, evars, gvars, ovars, pvars, hvars, shvars, dvars>>
OtherThanSubscriptions == <<qvars, bvars, ivars, cvars, tvars, rwvars, rbvars, evars, gvars, ovars, pvars, hvars, shvars, dvars>>
OtherThanRingBuffer == <<qvars, bvars, ivars, cvars, tvars, rwvars, svars, evars, gvars, ovars, pvars, hvars, shvars, dvars>>
OtherThanStrategy == <<qvars, bvars, ivars, cvars, tvars, rwvars, svars, rbvars, gvars, ovars, pvars, hvars, shvars, dvars>>
OtherThanRiskGate == <<qvars, bvars, ivars, cvars, tvars, rwvars, svars, rbvars, evars, ovars, pvars, hvars, shvars, dvars>>
OtherThanOrderManager == <<qvars, bvars, ivars, cvars, tvars, rwvars, svars, rbvars, evars, gvars, pvars, hvars, shvars, dvars>>
OtherThanBatchPath == <<qvars, bvars, ivars, cvars, tvars, rwvars, svars, rbvars, evars, gvars, ovars, hvars, shvars, dvars>>
OtherThanHttp == <<qvars, bvars, ivars, cvars, tvars, rwvars, svars, rbvars, evars, gvars, ovars, pvars, shvars, dvars>>
OtherThanSharding == <<qvars, bvars, ivars, cvars, tvars, rwvars, svars, rbvars, evars, gvars, ovars, pvars, hvars, dvars>>
OtherThanDecoder == <<qvars, bvars, ivars, cvars, tvars, rwvars, svars, rbvars, evars, gvars, ovars, pvars, hvars, shvars>>

(***************************************************************************)
(* Initial state: every component as its constructor leaves it.            *)
(***************************************************************************)
Subscribers == {"s1", "s2"}
BSubscribers == {"b1", "b2"}
\* The subscribers that pass a timeout to subscribe(); the others block.
TimedSubscribers == {"b1"}
Publishers == {"p1", "p2"}

QInit ==
    /\ queues = [t \in Topics |-> <<>>]
    /\ published = <<>>
    /\ popped = [t \in Topics |-> <<>>]
    /\ pubAtFirstPop = [t \in Topics |-> 0]
    /\ dropped = [t \in Topics |-> 0]
    /\ subPc = [s \in Subscribers |-> "unsub"]
    /\ subTopic = [s \in Subscribers |-> Wildcard]
    /\ subHasTimeout = [s \in Subscribers |-> FALSE]
    /\ subNotified = [s \in Subscribers |-> FALSE]
    /\ subTimer = [s \in Subscribers |-> 0]
    /\ subElapsed = [s \in Subscribers |-> 0]
    /\ observed = [s \in Subscribers |-> <<>>]
    /\ yieldedNone = [s \in Subscribers |-> FALSE]

BInit ==
    /\ subscriptions = [t \in Topics |-> <<>>]
    /\ bQueue = [s \in BSubscribers |-> <<>>]
    /\ bState = [s \in BSubscribers |-> "none"]
    /\ bTopic = [s \in BSubscribers |-> Wildcard]
    /\ bHasTimeout = [s \in BSubscribers |-> FALSE]
    /\ bObserved = [s \in BSubscribers |-> <<>>]
    /\ bYieldedNone = [s \in BSubscribers |-> FALSE]
    /\ bDropped = [s \in BSubscribers |-> 0]
    /\ bFullSeen = [s \in BSubscribers |-> FALSE]
    /\ bLog = <<>>
    /\ pubPc = [p \in Publishers |-> "idle"]
    /\ pubWork = [p \in Publishers |-> <<>>]
    /\ pubRaised = [p \in Publishers |-> FALSE]

\* IngestionWorker.__post_init__ and the first statements of run_forever.
IInit ==
    /\ wpc = "outer"
    /\ stopEvent = FALSE
    /\ held = <<>>
    /\ batch_count = 0
    /\ ticks_buffer = <<>>
    /\ books_buffer = <<>>
    /\ fRet = "outer"
    /\ fSnap = <<>>
    /\ fPending = {}
    /\ rawQ = <<>>
    /\ chQ = <<>>
    /\ rawHanded = <<>>
    /\ chHanded = <<>>
    /\ buffered = <<>>
    /\ delivered = 0
    /\ wTimer = 0

\* The trading days of the model's timestamps, and the fallback files.
Kinds == {"ticks", "books"}
Days == {"1970-01-01", "2024-01-02"}

\* No ClickHouseWriter has been constructed yet.
CInit ==
    /\ fallback_dir = "unset"
    /\ tick_buffer = <<>>
    /\ book_buffer = <<>>
    /\ fallbackFiles = [f \in Kinds \X Days |-> <<>>]
    /\ failed_batch_history = <<>>
    /\ attempts = <<>>
    /\ written = 0

\* The restore tool has not run.
TInit ==
    /\ restored = <<>>
    /\ restoreRuns = 0
    /\ restoredUpTo = 0

\* RawWriter(root) over an empty root directory.
RWInit ==
    /\ rawFiles = <<>>
    /\ rawState = <<>>
    /\ rawEvents = 0

\* The keys f"{asset_type}:{code}" of the contracts, the quote types of the
\* two subscriptions, and the indices of buckets and sessions.
Keys == {"futures:TXF", "stock:2330"}
QuoteTypes == {"tick", "bidask"}
Indices == 0..(MaxPool - 1)

\* No pool and no SubscriptionManager has been constructed yet.
SInit ==
    /\ poolSize = 0
    /\ nSessions = 0
    /\ plan = <<>>
    /\ subscribed = [k \in Keys |-> -1]
    /\ subWork = [i \in Indices |-> <<>>]
    /\ subWorkerPc = [i \in Indices |-> "idle"]
    /\ active = [x \in Indices |-> [c \in Keys \X QuoteTypes |-> 0]]
    /\ universeCalls = 0
    /\ unsubLog = <<>>
    /\ brokerRaised = FALSE

\* The slot indices of the ring, and a freshly created (zero-filled) segment.
SlotIndices == 0..(SLOT_COUNT - 1)

RBInit ==
    /\ write_cursor = 0
    /\ slots = [i \in SlotIndices |-> [seq_num |-> 0, payload |-> 0]]
    /\ ppc = "idle"
    /\ rpc = "idle"
    /\ rMethod = "none"
    /\ rCursor = 0
    /\ rSeen = 0
    /\ rHanded = <<>>
    /\ rRaised = <<>>

\* No engine has been constructed yet.
EInit ==
    /\ config = [chase_threshold |-> 0, max_chase_round |-> 0]
    /\ state = "none"
    /\ chase_count = 0
    /\ order_price = 0
    /\ order_qty = 0
    /\ prev_state = <<>>
    /\ logs = <<>>
    /\ lastTick = <<>>

\* No gateway has been constructed yet.
GInit ==
    /\ gwPc = "none"
    /\ kill_active = FALSE
    /\ ref_price = 1
    /\ position = 0
    /\ tokens = 0
    /\ elapsed = 0
    /\ valid = <<>>
    /\ sendLog = <<>>
    /\ innerReceived = <<>>
    /\ rejectEvents = <<>>

\* The internal ids of the requests, the ids the broker gives, and one id of
\* another system.
InternalIds == {"oid-1", "oid-2"}
BrokerIds == 1..MaxPlaced
ForeignBrokerId == MaxPlaced + 1

\* NonBlockingOrderManager(api, resolver): an empty map.
OInit ==
    /\ orders = [i \in InternalIds |-> <<>>]
    /\ xPc = "idle"
    /\ xReq = <<>>
    /\ cbPc = "idle"
    /\ cbArgs = <<>>
    /\ cbTarget = "none"
    /\ brokerOrders = [b \in BrokerIds |-> <<>>]
    /\ lastCb = <<>>

\* The symbols of the recorded events; with one trading day each is a partition.
PartitionSymbols == {"TXF", "MXF"}

\* IngestionWorker(bus, raw_writer, analytical_writer): empty buffers, no file,
\* nothing sent.
PInit ==
    /\ pTicks = <<>>
    /\ pBooks = <<>>
    /\ pEntered = <<>>
    /\ pHandled = 0
    /\ rawLines = [sym \in PartitionSymbols |-> <<>>]
    /\ pChTicks = <<>>
    /\ pChBooks = <<>>
    /\ inserts = <<>>
    /\ flushed = <<>>

\* No ClickHouseWriter yet: the fields hold the defaults' places.
HInit ==
    /\ retry_policy = [max_retries |-> 0, base_delay |-> 1, max_delay |-> 1,
                       backoff_factor |-> 1]
    /\ hPc = "new"
    /\ hAttempt = 0
    /\ hBuffer = FALSE
    /\ hPosts = <<>>
    /\ hSleeps = <<>>
    /\ hResult = "none"

\* No deployment yet.
ShInit ==
    /\ total_items = 0
    /\ total_shards = 0
    /\ shardSlices = <<>>

NoRead == [op |-> "none", before |-> 0, size |-> 0, outcome |-> "none"]

\* No decoder yet.
DInit ==
    /\ dPc = "new"
    /\ dLimit = 0
    /\ dOffset = 0
    /\ dBlockSize = 0
    /\ dGroupLeft = 0
    /\ dLast = NoRead

Init ==
    QInit /\ BInit /\ IInit /\ CInit /\ TInit /\ RWInit /\ SInit /\ RBInit /\ EInit /\ GInit
    /\ OInit /\ PInit /\ HInit /\ ShInit /\ DInit

(***************************************************************************)
(* InMemoryEventBus                                                        *)
(***************************************************************************)
\* Whether an event of type ty goes to the queue of topic t (event.type and "*").
Matches(ty, t) == t = ty \/ t = Wildcard

\* The events published so far that were appended to the queue of topic t.
PublishedOn(t) == SelectSeq(published, LAMBDA e : Matches(e.type, t))

\* Enqueue with the full queue refusing the new event (drop-newest).
EnqueueDropNewest(q, e) ==
    IF Len(q) >= max_queue_size THEN q ELSE Append(q, e)

\* One pass of the body of the `for etype` loop: popleft when full, then append.
Enqueue(q, e) ==
    IF Len(q) >= max_queue_size THEN Append(Tail(q), e) ELSE Append(q, e)

RECURSIVE EnqueueAll(_, _)
EnqueueAll(q, es) ==
    IF es = <<>> THEN q ELSE EnqueueAll(Enqueue(q, Head(es)), Tail(es))

\* The events of es, in order, that go to topic t.
ForTopic(es, t) == SelectSeq(es, LAMBDA e : Matches(e.type, t))

\* The events a call publishes: fresh ids in call order, with the given types.
NewEvents(types) ==
    [i \in 1..Len(types) |-> [id |-> Len(published) + i, type |-> types[i]]]

\* What both publish and publish_many do under the lock, then notify_all.
PublishLocked(es) ==
    /\ queues' = [t \in Topics |-> EnqueueAll(queues[t], ForTopic(es, t))]
    /\ published' = published \o es
    /\ dropped' = [t \in Topics |->
                     dropped[t] + Len(queues[t]) + Len(ForTopic(es, t)) - Len(queues'[t])]
    /\ subNotified' = [s \in Subscribers |-> subNotified[s] \/ subPc[s] = "waiting"]
    /\ UNCHANGED <<popped, pubAtFirstPop, subPc, subTopic, subHasTimeout, subTimer,
                   subElapsed, observed, yieldedNone>>
    /\ UNCHANGED OtherThanQueueBus

InMemory_publish ==
    \E ty \in EventTypes :
        /\ Len(published) + 1 <= MaxPublish
        /\ PublishLocked(NewEvents(<<ty>>))

InMemory_publish_many ==
    \E types \in SeqsOf(EventTypes, 0, MaxBatch) :
        /\ Len(published) + Len(types) <= MaxPublish
        /\ PublishLocked(NewEvents(types))

\* subscribe(event_type, timeout): the generator is created for topic event_type or "*".
InMemory_subscribe(s) ==
    \E t \in Topics, to \in BOOLEAN :
        /\ subPc[s] = "unsub"
        /\ subPc' = [subPc EXCEPT ![s] = "ready"]
        /\ subTopic' = [subTopic EXCEPT ![s] = t]
        /\ subHasTimeout' = [subHasTimeout EXCEPT ![s] = to]
        /\ UNCHANGED <<queues, published, popped, pubAtFirstPop, dropped, subNotified,
                       subTimer, subElapsed, observed, yieldedNone>>
        /\ UNCHANGED OtherThanQueueBus

\* PopAndYield taking the newest event (pop() for popleft()).
PopRightAndYield(s) ==
    LET t == subTopic[s]
        q == queues[t]
        e == q[Len(q)]
    IN  /\ queues' = [queues EXCEPT ![t] = SubSeq(q, 1, Len(q) - 1)]
        /\ popped' = [popped EXCEPT ![t] = Append(@, e)]
        /\ pubAtFirstPop' = [pubAtFirstPop EXCEPT
                               ![t] = IF @ = 0 THEN Len(PublishedOn(t)) ELSE @]
        /\ observed' = [observed EXCEPT ![s] = Append(@, e)]
        /\ subPc' = [subPc EXCEPT ![s] = "ready"]
        /\ subNotified' = [subNotified EXCEPT ![s] = FALSE]
        /\ subElapsed' = [subElapsed EXCEPT ![s] = 0]
        /\ subTimer' = [subTimer EXCEPT ![s] = 0]
        /\ UNCHANGED <<published, dropped, subTopic, subHasTimeout, yieldedNone>>
        /\ UNCHANGED OtherThanQueueBus

\* PopAndYield yielding the head without removing it (queue[0] for popleft()).
PeekAndYield(s) ==
    LET t == subTopic[s]
        e == Head(queues[t])
    IN  /\ Len(observed[s]) < MaxPublish
        /\ popped' = [popped EXCEPT ![t] = Append(@, e)]
        /\ pubAtFirstPop' = [pubAtFirstPop EXCEPT
                               ![t] = IF @ = 0 THEN Len(PublishedOn(t)) ELSE @]
        /\ observed' = [observed EXCEPT ![s] = Append(@, e)]
        /\ subPc' = [subPc EXCEPT ![s] = "ready"]
        /\ subNotified' = [subNotified EXCEPT ![s] = FALSE]
        /\ subElapsed' = [subElapsed EXCEPT ![s] = 0]
        /\ subTimer' = [subTimer EXCEPT ![s] = 0]
        /\ UNCHANGED <<queues, published, dropped, subTopic, subHasTimeout, yieldedNone>>
        /\ UNCHANGED OtherThanQueueBus

\* event = queue.popleft(); yield event
PopAndYield(s) ==
    LET t == subTopic[s]
        e == Head(queues[t])
    IN  /\ queues' = [queues EXCEPT ![t] = Tail(@)]
        /\ popped' = [popped EXCEPT ![t] = Append(@, e)]
        /\ pubAtFirstPop' = [pubAtFirstPop EXCEPT
                               ![t] = IF @ = 0 THEN Len(PublishedOn(t)) ELSE @]
        /\ observed' = [observed EXCEPT ![s] = Append(@, e)]
        /\ subPc' = [subPc EXCEPT ![s] = "ready"]
        /\ subNotified' = [subNotified EXCEPT ![s] = FALSE]
        /\ subElapsed' = [subElapsed EXCEPT ![s] = 0]
        /\ subTimer' = [subTimer EXCEPT ![s] = 0]
        /\ UNCHANGED <<published, dropped, subTopic, subHasTimeout, yieldedNone>>
        /\ UNCHANGED OtherThanQueueBus

\* self._not_empty.wait(timeout=timeout): a new wait, with the whole timeout.
StartWait(s) ==
    /\ subPc' = [subPc EXCEPT ![s] = "waiting"]
    /\ subNotified' = [subNotified EXCEPT ![s] = FALSE]
    /\ subTimer' = [subTimer EXCEPT ![s] = IF subHasTimeout[s] THEN Timeout ELSE 0]
    /\ UNCHANGED <<queues, published, popped, pubAtFirstPop, dropped, subTopic,
                   subHasTimeout, subElapsed, observed, yieldedNone>>
    /\ UNCHANGED OtherThanQueueBus

\* next() on the sequence: under the lock, pop when the queue holds an event, else wait.
InMemory_next(s) ==
    /\ subPc[s] = "ready"
    /\ IF queues[subTopic[s]] # <<>> THEN PopAndYield(s) ELSE StartWait(s)

\* wait() returned True (`notified`): `continue`, so the loop tests the queue again
\* and, when it is still empty, waits again.
InMemory_wake(s) ==
    /\ subPc[s] = "waiting"
    /\ subNotified[s]
    /\ IF queues[subTopic[s]] # <<>> THEN PopAndYield(s) ELSE StartWait(s)

\* wait() returned False: `break`, then pop if an event came in meanwhile, else
\* yield None.
InMemory_wait_timeout(s) ==
    /\ subPc[s] = "waiting"
    /\ subHasTimeout[s]
    /\ subTimer[s] = 0
    /\ IF queues[subTopic[s]] # <<>>
       THEN PopAndYield(s)
       ELSE /\ yieldedNone' = [yieldedNone EXCEPT ![s] = TRUE]
            /\ subPc' = [subPc EXCEPT ![s] = "ready"]
            /\ subNotified' = [subNotified EXCEPT ![s] = FALSE]
            /\ subElapsed' = [subElapsed EXCEPT ![s] = 0]
            /\ UNCHANGED <<queues, published, popped, pubAtFirstPop, dropped, subTopic,
                           subHasTimeout, subTimer, observed>>
            /\ UNCHANGED OtherThanQueueBus

\* A subscriber that can run now: it was notified, or its wait has timed out.
Runnable(s) ==
    /\ subPc[s] = "waiting"
    /\ subNotified[s] \/ (subHasTimeout[s] /\ subTimer[s] = 0)

\* One tick of the clock. A runnable subscriber runs before the clock moves on.
InMemory_tick ==
    /\ \A s \in Subscribers : ~Runnable(s)
    /\ \E s \in Subscribers : subPc[s] = "waiting" /\ subHasTimeout[s]
    /\ \A s \in Subscribers : subElapsed[s] <= Timeout
    /\ subElapsed' = [s \in Subscribers |->
                        IF subPc[s] = "waiting" /\ subHasTimeout[s]
                        THEN subElapsed[s] + 1 ELSE subElapsed[s]]
    /\ subTimer' = [s \in Subscribers |->
                      IF subPc[s] = "waiting" /\ subHasTimeout[s]
                      THEN subTimer[s] - 1 ELSE subTimer[s]]
    /\ UNCHANGED <<queues, published, popped, pubAtFirstPop, dropped, subPc, subTopic,
                   subHasTimeout, subNotified, observed, yieldedNone>>
    /\ UNCHANGED OtherThanQueueBus

\* The timeout of a running wait elapses: time passing, without the clock. 
InMemory_timeout_elapses(s) ==
    /\ subPc[s] = "waiting"
    /\ subHasTimeout[s]
    /\ subTimer[s] > 0
    /\ subTimer' = [subTimer EXCEPT ![s] = 0]
    /\ UNCHANGED <<queues, published, popped, pubAtFirstPop, dropped, subPc, subTopic,
                   subHasTimeout, subNotified, subElapsed, observed, yieldedNone>>
    /\ UNCHANGED OtherThanQueueBus

\* The queue bus with time abstracted: a timeout may elapse at any moment.
QNext ==
    \/ InMemory_publish
    \/ InMemory_publish_many
    \/ \E s \in Subscribers : InMemory_subscribe(s)
    \/ \E s \in Subscribers : InMemory_next(s)
    \/ \E s \in Subscribers : InMemory_wake(s)
    \/ \E s \in Subscribers : InMemory_wait_timeout(s)
    \/ \E s \in Subscribers : InMemory_timeout_elapses(s)

SpecQueueBus == Init /\ [][QNext]_vars

\* The queue bus with a discrete clock: timeouts elapse tick by tick.
QTimedNext ==
    \/ InMemory_publish
    \/ InMemory_publish_many
    \/ \E s \in Subscribers : InMemory_subscribe(s)
    \/ \E s \in Subscribers : InMemory_next(s)
    \/ \E s \in Subscribers : InMemory_wake(s)
    \/ \E s \in Subscribers : InMemory_wait_timeout(s)
    \/ InMemory_tick

SpecQueueBusTimed == Init /\ [][QTimedNext]_vars

(***************************************************************************)
(* BroadcastEventBus                                                       *)
(***************************************************************************)
\* The registry without s (subscribers.remove(q)).
RegistryWithout(s) ==
    [t \in Topics |-> IF t = bTopic[s]
                      THEN SelectSeq(subscriptions[t], LAMBDA q : q # s)
                      ELSE subscriptions[t]]

\* for topic in (event.type, "*"): targets.extend(list(queues))
Targets(ty) == subscriptions[ty] \o subscriptions[Wildcard]

\* s has subscribed.
Live(s) == bState[s] \in {"created", "iterating"}

\* The live subscribers an event of type ty is for.
LiveOn(ty) == {s \in BSubscribers : Live(s) /\ Matches(ty, bTopic[s])}

\* The events a call of publisher p publishes: fresh ids in call order.
BNewEvents(p, types) ==
    [i \in 1..Len(types) |-> [id |-> Len(bLog) + i, type |-> types[i], by |-> p]]

\* The (event, queue) pairs of a call, in the order its put loop visits them.
RECURSIVE WorkOf(_)
WorkOf(es) ==
    IF es = <<>> THEN <<>>
    ELSE LET e == Head(es)
             tg == Targets(e.type)
         IN  [i \in 1..Len(tg) |-> [ev |-> e, q |-> tg[i]]] \o WorkOf(Tail(es))

\* The targets of every event are resolved under the lock; the puts follow outside it.
ResolveTargets(p, es, limit) ==
    /\ pubPc[p] = "idle"
    /\ Len(bLog) + Len(es) <= limit
    /\ bLog' = bLog \o [i \in 1..Len(es) |-> [ev |-> es[i], subs |-> LiveOn(es[i].type)]]
    /\ pubWork' = [pubWork EXCEPT ![p] = WorkOf(es)]
    /\ pubPc' = [pubPc EXCEPT ![p] = IF WorkOf(es) = <<>> THEN "idle" ELSE "put"]
    /\ UNCHANGED <<subscriptions, bQueue, bState, bTopic, bHasTimeout, bObserved,
                   bYieldedNone, bDropped, bFullSeen, pubRaised>>
    /\ UNCHANGED OtherThanBroadcast

Broadcast_publish(p) ==
    \E ty \in EventTypes : ResolveTargets(p, BNewEvents(p, <<ty>>), MaxBPublish)

Broadcast_publish_many(p) ==
    \E types \in SeqsOf(EventTypes, 0, MaxBatch) :
        ResolveTargets(p, BNewEvents(p, types), MaxBPublish)

\* The put loop moves on to the next (event, queue) pair, or the call returns.
Advance(p) ==
    /\ pubWork' = [pubWork EXCEPT ![p] = Tail(@)]
    /\ pubPc' = [pubPc EXCEPT ![p] = IF Tail(pubWork[p]) = <<>> THEN "idle" ELSE "put"]

\* try: q.put_nowait(event) / except queue.Full
Broadcast_put_nowait(p) ==
    /\ pubPc[p] = "put"
    /\ LET w == Head(pubWork[p])
       IN  IF Len(bQueue[w.q]) < max_queue_size
           THEN /\ bQueue' = [bQueue EXCEPT ![w.q] = Append(@, w.ev)]
                /\ Advance(p)
                /\ UNCHANGED bFullSeen
           ELSE /\ pubPc' = [pubPc EXCEPT ![p] = "full"]
                /\ bFullSeen' = [bFullSeen EXCEPT ![w.q] = TRUE]
                /\ UNCHANGED <<bQueue, pubWork>>
    /\ UNCHANGED <<subscriptions, bState, bTopic, bHasTimeout, bObserved, bYieldedNone,
                   bDropped, bLog, pubRaised>>
    /\ UNCHANGED OtherThanBroadcast

\* try: _ = q.get_nowait() / except queue.Empty: pass
Broadcast_get_nowait(p) ==
    /\ pubPc[p] = "full"
    /\ LET q == Head(pubWork[p]).q
       IN  /\ bQueue' = [bQueue EXCEPT ![q] = IF @ = <<>> THEN @ ELSE Tail(@)]
           /\ bDropped' = [bDropped EXCEPT ![q] = IF bQueue[q] = <<>> THEN @ ELSE @ + 1]
    /\ pubPc' = [pubPc EXCEPT ![p] = "reput"]
    /\ UNCHANGED <<subscriptions, bState, bTopic, bHasTimeout, bObserved, bYieldedNone,
                   bFullSeen, bLog, pubWork, pubRaised>>
    /\ UNCHANGED OtherThanBroadcast

\* The second q.put_nowait(event), in the except branch: no handler catches its
\* queue.Full, which ends the call.
Broadcast_put_again(p) ==
    /\ pubPc[p] = "reput"
    /\ LET w == Head(pubWork[p])
       IN  IF Len(bQueue[w.q]) < max_queue_size
           THEN /\ bQueue' = [bQueue EXCEPT ![w.q] = Append(@, w.ev)]
                /\ Advance(p)
                /\ UNCHANGED pubRaised
           ELSE /\ pubRaised' = [pubRaised EXCEPT ![p] = TRUE]
                /\ pubWork' = [pubWork EXCEPT ![p] = <<>>]
                /\ pubPc' = [pubPc EXCEPT ![p] = "idle"]
                /\ UNCHANGED bQueue
    /\ UNCHANGED <<subscriptions, bState, bTopic, bHasTimeout, bObserved, bYieldedNone,
                   bDropped, bFullSeen, bLog>>
    /\ UNCHANGED OtherThanBroadcast

\* subscribe(event_type, timeout): the queue is made and registered at once.
Broadcast_subscribe(s) ==
    \E t \in Topics :
        /\ bState[s] = "none"
        /\ bState' = [bState EXCEPT ![s] = "created"]
        /\ bTopic' = [bTopic EXCEPT ![s] = t]
        /\ bHasTimeout' = [bHasTimeout EXCEPT ![s] = s \in TimedSubscribers]
        /\ subscriptions' = [subscriptions EXCEPT ![t] = Append(@, s)]
        /\ UNCHANGED <<bQueue, bObserved, bYieldedNone, bDropped, bFullSeen, bLog, pubPc, pubWork,
                       pubRaised>>
        /\ UNCHANGED OtherThanBroadcast

\* q.get returned an event: yield event
GetAndYield(s) ==
    /\ bQueue' = [bQueue EXCEPT ![s] = Tail(@)]
    /\ bObserved' = [bObserved EXCEPT ![s] = Append(@, Head(bQueue[s]))]
    /\ bState' = [bState EXCEPT ![s] = "iterating"]
    /\ UNCHANGED <<subscriptions, bTopic, bHasTimeout, bYieldedNone, bDropped, bFullSeen, bLog,
                   pubPc, pubWork, pubRaised>>
    /\ UNCHANGED OtherThanBroadcast

\* next() on the sequence: q.get(timeout=timeout) or q.get() returns an event,
\* at once or after blocking until a put.
Broadcast_next(s) ==
    /\ bState[s] \in {"created", "iterating"}
    /\ bQueue[s] # <<>>
    /\ GetAndYield(s)

\* q.get(timeout=timeout) raised queue.Empty: yield None
Broadcast_get_timeout(s) ==
    /\ bState[s] \in {"created", "iterating"}
    /\ bHasTimeout[s]
    /\ bQueue[s] = <<>>
    /\ bState' = [bState EXCEPT ![s] = "iterating"]
    /\ bYieldedNone' = [bYieldedNone EXCEPT ![s] = TRUE]
    /\ UNCHANGED <<subscriptions, bQueue, bTopic, bHasTimeout, bObserved, bDropped, bFullSeen, bLog,
                   pubPc, pubWork, pubRaised>>
    /\ UNCHANGED OtherThanBroadcast

BNext ==
    \/ \E p \in Publishers : Broadcast_publish(p)
    \/ \E p \in Publishers : Broadcast_publish_many(p)
    \/ \E p \in Publishers : Broadcast_put_nowait(p)
    \/ \E p \in Publishers : Broadcast_get_nowait(p)
    \/ \E p \in Publishers : Broadcast_put_again(p)
    \/ \E s \in BSubscribers : Broadcast_subscribe(s)
    \/ \E s \in BSubscribers : Broadcast_next(s)
    \/ \E s \in BSubscribers : Broadcast_get_timeout(s)

SpecBroadcast == Init /\ [][BNext]_vars

\* publish() of a tick, in a burst long enough to refill a full queue.
Broadcast_publish_burst(p) ==
    \E ty \in {"MD_TICK"} : ResolveTargets(p, BNewEvents(p, <<ty>>), max_queue_size + 2)

\* Publishers that race on the queues of slow subscribers.
BRaceNext ==
    \/ \E p \in Publishers : Broadcast_publish_burst(p)
    \/ \E p \in Publishers : Broadcast_put_nowait(p)
    \/ \E p \in Publishers : Broadcast_get_nowait(p)
    \/ \E p \in Publishers : Broadcast_put_again(p)
    \/ \E s \in BSubscribers : Broadcast_subscribe(s)
    \/ \E s \in BSubscribers : Broadcast_next(s)

SpecBroadcastRace == Init /\ [][BRaceNext]_vars

\* close() on the returned sequence, or its collection once the caller has dropped
\* it.  A generator that was never started ends without running its body, so the
\* finally block runs only when the sequence was suspended at a yield.
Broadcast_close(s) ==
    /\ bState[s] \in {"created", "iterating"}
    /\ bState' = [bState EXCEPT ![s] = "closed"]
    /\ subscriptions' = IF bState[s] = "iterating" THEN RegistryWithout(s) ELSE subscriptions
    /\ UNCHANGED <<bQueue, bTopic, bHasTimeout, bObserved, bYieldedNone, bDropped, bFullSeen,
                   bLog, pubPc, pubWork, pubRaised>>
    /\ UNCHANGED OtherThanBroadcast

\* Subscribers that come and go while one thread publishes.
LifetimePublishers == {"p1"}

BLifetimeNext ==
    \/ \E p \in LifetimePublishers : Broadcast_publish(p)
    \/ \E p \in LifetimePublishers : Broadcast_put_nowait(p)
    \/ \E p \in LifetimePublishers : Broadcast_get_nowait(p)
    \/ \E p \in LifetimePublishers : Broadcast_put_again(p)
    \/ \E s \in BSubscribers : Broadcast_subscribe(s)
    \/ \E s \in BSubscribers : Broadcast_next(s)
    \/ \E s \in BSubscribers : Broadcast_get_timeout(s)
    \/ \E s \in BSubscribers : Broadcast_close(s)

SpecBroadcastLifetime == Init /\ [][BLifetimeNext]_vars

(***************************************************************************)
(* IngestionWorker, with the task queues of its two writers                 *)
(***************************************************************************)

\* A flush() that hands the snapshot on and leaves the buffers as they are.
FlushKeepingBuffers(tb, bb, ret) ==
    IF tb = <<>> /\ bb = <<>>
    THEN /\ wpc' = ret
         /\ ticks_buffer' = tb
         /\ books_buffer' = bb
         /\ UNCHANGED <<fRet, fSnap, fPending>>
    ELSE /\ wpc' = "flush_wait"
         /\ fRet' = ret
         /\ fSnap' = <<tb, bb>>
         /\ fPending' = {"raw", "analytical"}
         /\ ticks_buffer' = tb
         /\ books_buffer' = bb

\* flush(): nothing buffered returns at once; otherwise the buffers are copied
\* and cleared and both write_batch calls are submitted to the executor.
Flush(tb, bb, ret) ==
    IF tb = <<>> /\ bb = <<>>
    THEN /\ wpc' = ret
         /\ ticks_buffer' = tb
         /\ books_buffer' = bb
         /\ UNCHANGED <<fRet, fSnap, fPending>>
    ELSE /\ wpc' = "flush_wait"
         /\ fRet' = ret
         /\ fSnap' = <<tb, bb>>
         /\ fPending' = {"raw", "analytical"}
         /\ ticks_buffer' = <<>>
         /\ books_buffer' = <<>>

\* A flush check that looks at the clock only, never at the buffer size.
FlushIfDueByTimeOnly(tb, bb, ret) ==
    \E due \in BOOLEAN :
        IF due
        THEN Flush(tb, bb, ret)
        ELSE /\ wpc' = ret
             /\ ticks_buffer' = tb
             /\ books_buffer' = bb
             /\ UNCHANGED <<fRet, fSnap, fPending>>

\* if self._should_flush(): self.flush()  -- the buffers have reached
\* max_buffer_events, or flush_interval has passed on the clock.
FlushIfDue(tb, bb, ret) ==
    \E due \in BOOLEAN :
        IF Len(tb) + Len(bb) >= max_buffer_events \/ due
        THEN Flush(tb, bb, ret)
        ELSE /\ wpc' = ret
             /\ ticks_buffer' = tb
             /\ books_buffer' = bb
             /\ UNCHANGED <<fRet, fSnap, fPending>>

\* while not self._stop_event.is_set(): batch_count = 0 ...
Worker_outer ==
    /\ wpc = "outer"
    /\ IF stopEvent
       THEN /\ wpc' = "final"
            /\ UNCHANGED <<batch_count, wTimer>>
       ELSE /\ wpc' = "next"
            /\ batch_count' = 0
            /\ wTimer' = PollTimeout
    /\ UNCHANGED <<stopEvent, held, ticks_buffer, books_buffer, fRet, fSnap, fPending, rawQ,
                   chQ, rawHanded, chHanded, buffered, delivered>>
    /\ UNCHANGED OtherThanIngestion

\* event = next(events): the bus has an event for the worker.
Worker_next_event ==
    /\ wpc = "next"
    /\ delivered < MaxEvents
    /\ \E ty \in EventTypes : held' = [id |-> delivered + 1, type |-> ty]
    /\ delivered' = delivered + 1
    /\ wpc' = "got"
    /\ wTimer' = 0
    /\ UNCHANGED <<stopEvent, batch_count, ticks_buffer, books_buffer, fRet, fSnap, fPending,
                   rawQ, chQ, rawHanded, chHanded, buffered>>
    /\ UNCHANGED OtherThanIngestion

\* event = next(events): the wait ran its whole timeout, the sequence yields None.
Worker_next_timeout ==
    /\ wpc = "next"
    /\ wTimer = 0
    /\ held' = <<>>
    /\ wpc' = "got"
    /\ UNCHANGED <<stopEvent, batch_count, ticks_buffer, books_buffer, fRet, fSnap, fPending,
                   rawQ, chQ, rawHanded, chHanded, buffered, delivered, wTimer>>
    /\ UNCHANGED OtherThanIngestion

\* except StopIteration: self._stop_event.set(); break
Worker_next_stop_iteration ==
    /\ wpc = "next"
    /\ stopEvent' = TRUE
    /\ wpc' = "post"
    /\ wTimer' = 0
    /\ UNCHANGED <<held, batch_count, ticks_buffer, books_buffer, fRet, fSnap, fPending, rawQ,
                   chQ, rawHanded, chHanded, buffered, delivered>>
    /\ UNCHANGED OtherThanIngestion

\* The clock advances while next(events) waits.
Bus_tick ==
    /\ wpc = "next"
    /\ wTimer > 0
    /\ wTimer' = wTimer - 1
    /\ UNCHANGED <<wpc, stopEvent, held, batch_count, ticks_buffer, books_buffer, fRet, fSnap,
                   fPending, rawQ, chQ, rawHanded, chHanded, buffered, delivered>>
    /\ UNCHANGED OtherThanIngestion

\* notify_all reaches the waiting sequence while its queue is empty (an empty
\* publish_many, or an event another consumer took): notified is True, the
\* loop continues and Condition.wait(timeout) starts again.
Bus_notify ==
    /\ wpc = "next"
    /\ wTimer > 0
    /\ wTimer < PollTimeout
    /\ wTimer' = PollTimeout
    /\ UNCHANGED <<wpc, stopEvent, held, batch_count, ticks_buffer, books_buffer, fRet, fSnap,
                   fPending, rawQ, chQ, rawHanded, chHanded, buffered, delivered>>
    /\ UNCHANGED OtherThanIngestion

\* _handle_event: a tick goes to _ticks_buffer, a book to _books_buffer.
TicksWith(e) == IF e.type = "MD_TICK" THEN Append(ticks_buffer, e) ELSE ticks_buffer
BooksWith(e) == IF e.type = "MD_BOOK" THEN Append(books_buffer, e) ELSE books_buffer

\* The body of the inner loop after next(events) returned.
Worker_got ==
    /\ wpc = "got"
    /\ held' = <<>>
    /\ IF stopEvent \/ held = <<>>
       THEN /\ wpc' = "post"
            /\ UNCHANGED <<batch_count, ticks_buffer, books_buffer, fRet, fSnap, fPending,
                           buffered>>
       ELSE /\ batch_count' = batch_count + 1
            /\ buffered' = Append(buffered, held)
            /\ FlushIfDue(TicksWith(held), BooksWith(held), "check")
    /\ UNCHANGED <<stopEvent, rawQ, chQ, rawHanded, chHanded, delivered, wTimer>>
    /\ UNCHANGED OtherThanIngestion

\* if self._stop_event.is_set() or self.clock() >= batch_deadline: break
\* and the condition of the inner while.
Worker_check ==
    /\ wpc = "check"
    /\ \E deadline_passed \in BOOLEAN :
          IF stopEvent \/ deadline_passed \/ batch_count >= max_batch_events
          THEN /\ wpc' = "post"
               /\ UNCHANGED wTimer
          ELSE /\ wpc' = "next"
               /\ wTimer' = PollTimeout
    /\ UNCHANGED <<stopEvent, held, batch_count, ticks_buffer, books_buffer, fRet, fSnap,
                   fPending, rawQ, chQ, rawHanded, chHanded, buffered, delivered>>
    /\ UNCHANGED OtherThanIngestion

\* After the inner loop: if self._should_flush(): self.flush()
Worker_post ==
    /\ wpc = "post"
    /\ FlushIfDue(ticks_buffer, books_buffer, "outer")
    /\ UNCHANGED <<stopEvent, held, batch_count, rawQ, chQ, rawHanded, chHanded, buffered,
                   delivered, wTimer>>
    /\ UNCHANGED OtherThanIngestion

\* self.flush() after the outer loop.
Worker_final_flush ==
    /\ wpc = "final"
    /\ Flush(ticks_buffer, books_buffer, "finally")
    /\ UNCHANGED <<stopEvent, held, batch_count, rawQ, chQ, rawHanded, chHanded, buffered,
                   delivered, wTimer>>
    /\ UNCHANGED OtherThanIngestion

\* finally: self.flush()
Worker_finally_flush ==
    /\ wpc = "finally"
    /\ Flush(ticks_buffer, books_buffer, "drain_raw")
    /\ UNCHANGED <<stopEvent, held, batch_count, rawQ, chQ, rawHanded, chHanded, buffered,
                   delivered, wTimer>>
    /\ UNCHANGED OtherThanIngestion


\* A put on a writer's task queue with async_enqueue_timeout: a full queue
\* that stays full for the timeout drops the task.
Submit(q, task) == IF Len(q) < async_queue_max_batches THEN Append(q, task) ELSE q

\* The executor runs raw_writer.write_batch(ticks, books).
Executor_raw_write_batch ==
    /\ wpc = "flush_wait"
    /\ "raw" \in fPending
    /\ fPending' = fPending \ {"raw"}
    /\ rawHanded' = Append(rawHanded, fSnap)
    /\ rawQ' = Submit(rawQ, fSnap)
    /\ UNCHANGED <<wpc, stopEvent, held, batch_count, ticks_buffer, books_buffer, fRet, fSnap,
                   chQ, chHanded, buffered, delivered, wTimer>>
    /\ UNCHANGED OtherThanIngestion

\* The executor runs analytical_writer.write_batch(ticks, books).
Executor_analytical_write_batch ==
    /\ wpc = "flush_wait"
    /\ "analytical" \in fPending
    /\ fPending' = fPending \ {"analytical"}
    /\ chHanded' = Append(chHanded, fSnap)
    /\ chQ' = Submit(chQ, [kind |-> "write", batch |-> fSnap])
    /\ UNCHANGED <<wpc, stopEvent, held, batch_count, ticks_buffer, books_buffer, fRet, fSnap,
                   rawQ, rawHanded, buffered, delivered, wTimer>>
    /\ UNCHANGED OtherThanIngestion

\* wait(futures) is over: analytical_writer.flush(force=True), and flush() returns.
Flush_return ==
    /\ wpc = "flush_wait"
    /\ fPending = {}
    /\ chQ' = Submit(chQ, [kind |-> "flush", batch |-> <<>>])
    /\ wpc' = fRet
    /\ fSnap' = <<>>
    /\ UNCHANGED <<stopEvent, held, batch_count, ticks_buffer, books_buffer, fRet, fPending,
                   rawQ, rawHanded, chHanded, buffered, delivered, wTimer>>
    /\ UNCHANGED OtherThanIngestion

\* _drain_async_writers: raw_writer.drain_async() joins the raw task queue.
Worker_drain_raw ==
    /\ wpc = "drain_raw"
    /\ rawQ = <<>>
    /\ wpc' = "drain_analytical"
    /\ UNCHANGED <<stopEvent, held, batch_count, ticks_buffer, books_buffer, fRet, fSnap,
                   fPending, rawQ, chQ, rawHanded, chHanded, buffered, delivered, wTimer>>
    /\ UNCHANGED OtherThanIngestion

\* analytical_writer.drain_async() joins its task queue; the executor shuts
\* down and run_forever returns.
Worker_drain_analytical ==
    /\ wpc = "drain_analytical"
    /\ chQ = <<>>
    /\ wpc' = "done"
    /\ UNCHANGED <<stopEvent, held, batch_count, ticks_buffer, books_buffer, fRet, fSnap,
                   fPending, rawQ, chQ, rawHanded, chHanded, buffered, delivered, wTimer>>
    /\ UNCHANGED OtherThanIngestion

\* RawWriter._drain_loop takes a batch, writes it and marks the task done.
Raw_drain_loop ==
    /\ rawQ # <<>>
    /\ rawQ' = Tail(rawQ)
    /\ UNCHANGED <<wpc, stopEvent, held, batch_count, ticks_buffer, books_buffer, fRet, fSnap,
                   fPending, chQ, rawHanded, chHanded, buffered, delivered, wTimer>>
    /\ UNCHANGED OtherThanIngestion

\* ClickHouseWriter._worker_loop takes a task, runs it and marks it done.
ClickHouse_worker_loop ==
    /\ chQ # <<>>
    /\ chQ' = Tail(chQ)
    /\ UNCHANGED <<wpc, stopEvent, held, batch_count, ticks_buffer, books_buffer, fRet, fSnap,
                   fPending, rawQ, rawHanded, chHanded, buffered, delivered, wTimer>>
    /\ UNCHANGED OtherThanIngestion

\* stop(), from any thread; a second call changes nothing.
Worker_stop ==
    /\ ~stopEvent
    /\ stopEvent' = TRUE
    /\ UNCHANGED <<wpc, held, batch_count, ticks_buffer, books_buffer, fRet, fSnap, fPending,
                   rawQ, chQ, rawHanded, chHanded, buffered, delivered, wTimer>>
    /\ UNCHANGED OtherThanIngestion

INext ==
    \/ Worker_outer
    \/ Worker_next_event
    \/ Worker_next_timeout
    \/ Worker_next_stop_iteration
    \/ Bus_tick
    \/ Bus_notify
    \/ Worker_got
    \/ Worker_check
    \/ Worker_post
    \/ Worker_final_flush
    \/ Worker_finally_flush
    \/ Executor_raw_write_batch
    \/ Executor_analytical_write_batch
    \/ Flush_return
    \/ Worker_drain_raw
    \/ Worker_drain_analytical
    \/ Raw_drain_loop
    \/ ClickHouse_worker_loop
    \/ Worker_stop

SpecIngestion == Init /\ [][INext]_vars

\* Every thread that can take a step is scheduled, and the clock advances;
\* when events arrive, whether the bus notifies and when stop() is called is
\* up to the environment.
SpecIngestionFair ==
    /\ SpecIngestion
    /\ WF_vars(Worker_outer)
    /\ WF_vars(Worker_next_timeout)
    /\ WF_vars(Worker_got)
    /\ WF_vars(Worker_check)
    /\ WF_vars(Worker_post)
    /\ WF_vars(Worker_final_flush)
    /\ WF_vars(Worker_finally_flush)
    /\ WF_vars(Executor_raw_write_batch)
    /\ WF_vars(Executor_analytical_write_batch)
    /\ WF_vars(Flush_return)
    /\ WF_vars(Worker_drain_raw)
    /\ WF_vars(Worker_drain_analytical)
    /\ WF_vars(Raw_drain_loop)
    /\ WF_vars(ClickHouse_worker_loop)
    /\ WF_vars(Bus_tick)

\* The flush check after the inner loop finding the flush due.
Worker_post_flush == Worker_post /\ wpc' = "flush_wait"

\* The clock of the flush interval: every pass through next(events) takes time,
\* so a worker that keeps coming to the flush check with events buffered finds
\* flush_interval elapsed at one of them.
SpecIngestionQuiet == SpecIngestionFair /\ SF_vars(Worker_post_flush)

(***************************************************************************)
(* ClickHouseWriter: buffers, inserts and the fallback files                *)
(***************************************************************************)

\* _trading_day(ts_ns): a falsy timestamp is the epoch day.
TradingDay(ts) == IF ts = 0 THEN "1970-01-01" ELSE "2024-01-02"

\* orjson.dumps(event) of an event that serializes: the line carries its fields.
Dumps(e) == [id |-> e.id, type |-> e.type, ts_ns |-> e.ts_ns]

\* The writer's mutable state, as one record the helpers below transform.
WriterState ==
    [ticks |-> tick_buffer, books |-> book_buffer, files |-> fallbackFiles,
     history |-> failed_batch_history, attempts |-> attempts, flushed |-> FALSE]

BufferOf(st, kind) == IF kind = "ticks" THEN st.ticks ELSE st.books

\* A fallback write that replaces the file's content instead of appending to it.
PersistOverwriting(files, kind, records) ==
    IF fallback_dir # "path" THEN files
    ELSE [f \in Kinds \X Days |->
            IF f[1] = kind /\ SelectSeq(records, LAMBDA r : r.day = f[2]) # <<>>
            THEN [i \in 1..Len(SelectSeq(records, LAMBDA r : r.day = f[2])) |->
                                SelectSeq(records, LAMBDA r : r.day = f[2])[i].payload]
            ELSE files[f]]

\* _persist_failed_records: without a fallback directory nothing is written;
\* otherwise each record is appended to the file of its kind and day.
PersistFailedRecords(files, kind, records) ==
    IF fallback_dir # "path" THEN files
    ELSE [f \in Kinds \X Days |->
            IF f[1] = kind
            THEN files[f] \o [i \in 1..Len(SelectSeq(records, LAMBDA r : r.day = f[2])) |->
                                SelectSeq(records, LAMBDA r : r.day = f[2])[i].payload]
            ELSE files[f]]

\* The (trading_day, payload) records of the events that serialize.
RecordsOf(batch) ==
    [i \in 1..Len(SelectSeq(batch, LAMBDA e : e.ser)) |->
        [day |-> TradingDay(SelectSeq(batch, LAMBDA e : e.ser)[i].ts_ns),
         payload |-> Dumps(SelectSeq(batch, LAMBDA e : e.ser)[i])]]

\* _handle_failed_batch: events that do not serialize are skipped; with no
\* record left nothing is stored, otherwise the records are persisted and one
\* FailedBatchMeta is appended to the bounded history.
HandleFailedBatch(st, kind, batch) ==
    IF RecordsOf(batch) = <<>> THEN st
    ELSE [st EXCEPT !.files = PersistFailedRecords(st.files, kind, RecordsOf(batch)),
                    !.history = LastN(Append(st.history,
                                             [kind |-> kind, count |-> Len(RecordsOf(batch))]),
                                      FAILED_BATCH_HISTORY_LIMIT)]

\* A flush that clears the buffer whether or not the insert succeeded.
FlushKindAlwaysClearing(st, kind, ok) ==
    IF BufferOf(st, kind) = <<>> THEN st
    ELSE LET batch == BufferOf(st, kind)
             logged == [st EXCEPT !.attempts =
                            Append(@, [kind |-> kind, batch |-> batch, ok |-> ok])]
             after == IF ok THEN [logged EXCEPT !.flushed = TRUE]
                      ELSE HandleFailedBatch(logged, kind, batch)
         IN  IF kind = "ticks" THEN [after EXCEPT !.ticks = <<>>]
             ELSE [after EXCEPT !.books = <<>>]

\* A flush that leaves the buffer as it was after a successful insert too.
FlushKindNeverClearing(st, kind, ok) ==
    IF BufferOf(st, kind) = <<>> THEN st
    ELSE LET batch == BufferOf(st, kind)
             logged == [st EXCEPT !.attempts =
                            Append(@, [kind |-> kind, batch |-> batch, ok |-> ok])]
         IN  IF ~ok THEN HandleFailedBatch(logged, kind, batch)
             ELSE [logged EXCEPT !.flushed = TRUE]

\* _flush_ticks / _flush_books: an empty buffer returns; a failed insert goes
\* to _handle_failed_batch and keeps the buffer; a successful one clears it.
FlushKind(st, kind, ok) ==
    IF BufferOf(st, kind) = <<>> THEN st
    ELSE LET batch == BufferOf(st, kind)
             logged == [st EXCEPT !.attempts =
                            Append(@, [kind |-> kind, batch |-> batch, ok |-> ok])]
         IN  IF ~ok THEN HandleFailedBatch(logged, kind, batch)
             ELSE IF kind = "ticks" THEN [logged EXCEPT !.ticks = <<>>, !.flushed = TRUE]
                  ELSE [logged EXCEPT !.books = <<>>, !.flushed = TRUE]

\* The writer's variables take the values of the record.
Becomes(st) ==
    /\ tick_buffer' = st.ticks
    /\ book_buffer' = st.books
    /\ fallbackFiles' = st.files
    /\ failed_batch_history' = st.history
    /\ attempts' = st.attempts
    /\ Len(st.attempts) <= MaxAttempts

\* ClickHouseWriter(dsn, client, fallback_dir): __post_init__ makes a given
\* fallback directory a Path; none given leaves it None.
ClickHouse_init ==
    /\ fallback_dir = "unset"
    /\ \E dir \in {"none", "path"} : fallback_dir' = dir
    /\ UNCHANGED <<tick_buffer, book_buffer, fallbackFiles, failed_batch_history, attempts,
                   written>>
    /\ UNCHANGED OtherThanWriter

\* The events of one kind a call of write_batch is given: none, or one fresh
\* event with or without a timestamp, serializable or not.
NewBatches(type, n) ==
    {<<>>} \cup {<<[id |-> n + 1, type |-> type, ts_ns |-> ts, ser |-> ser]>> :
                    ts \in {0, 1}, ser \in BOOLEAN}

\* The outcomes of an insert, when the flush of a kind is attempted at all.
Outcomes(attempted) == IF attempted THEN BOOLEAN ELSE {TRUE}

\* write_batch(ticks, books) on the synchronous path: _write_batch_sync extends
\* the buffers and flushes each kind that reached flush_threshold or is due;
\* a successful tick flush resets _last_flush_ts, so books are then no longer due.
ClickHouse_write_batch ==
    /\ fallback_dir # "unset"
    /\ \E ticks \in NewBatches("MD_TICK", written) :
       \E books \in NewBatches("MD_BOOK", written + Len(ticks)) :
       \E due \in BOOLEAN :
          /\ ticks # <<>> \/ books # <<>>
          /\ written + Len(ticks) + Len(books) <= MaxWritten
          /\ written' = written + Len(ticks) + Len(books)
          /\ LET st0 == [WriterState EXCEPT !.ticks = @ \o ticks, !.books = @ \o books]
                 try1 == Len(st0.ticks) >= flush_threshold \/ due
             IN  \E ok1 \in Outcomes(try1) :
                   LET st1 == IF try1 THEN FlushKind(st0, "ticks", ok1) ELSE st0
                       try2 == Len(st1.books) >= flush_threshold \/ (due /\ ~st1.flushed)
                   IN  \E ok2 \in Outcomes(try2) :
                         Becomes(IF try2 THEN FlushKind(st1, "books", ok2) ELSE st1)
    /\ UNCHANGED fallback_dir
    /\ UNCHANGED OtherThanWriter

\* flush(force) on the synchronous path: _flush_sync.
ClickHouse_flush ==
    /\ fallback_dir # "unset"
    /\ \E force \in BOOLEAN :
          LET st0 == WriterState
              try1 == force \/ Len(st0.ticks) >= flush_threshold
          IN  \E ok1 \in Outcomes(try1 /\ st0.ticks # <<>>) :
                LET st1 == IF try1 THEN FlushKind(st0, "ticks", ok1) ELSE st0
                    try2 == force \/ Len(st1.books) >= flush_threshold
                IN  \E ok2 \in Outcomes(try2 /\ st1.books # <<>>) :
                      LET st2 == IF try2 THEN FlushKind(st1, "books", ok2) ELSE st1
                      IN  /\ st2 # st0
                          /\ Becomes(st2)
    /\ UNCHANGED <<fallback_dir, written>>
    /\ UNCHANGED OtherThanWriter

CNext ==
    \/ ClickHouse_init
    \/ ClickHouse_write_batch
    \/ ClickHouse_flush

SpecWriter == Init /\ [][CNext]_vars

(***************************************************************************)
(* restore_failed_batches: replaying the fallback files into the store     *)
(***************************************************************************)

\* _tick_row / _book_row: the row of an event (trading_day is derived from ts_ns).
RowOf(e) ==
    [table |-> IF e.type = "MD_TICK" THEN "ticks" ELSE "orderbook",
     id |-> e.id, trading_day |-> TradingDay(e.ts_ns), ts_ns |-> e.ts_ns]

RowsOf(es) == [i \in 1..Len(es) |-> RowOf(es[i])]

\* _deserialize_event: the event of a parsed line, built from its fields
\* according to its "type"; any other type gives no event.
DeserializeEvent(payload) ==
    IF payload.type \in EventTypes
    THEN <<[id |-> payload.id, type |-> payload.type, ts_ns |-> payload.ts_ns, ser |-> TRUE]>>
    ELSE <<>>

\* _stream_events: the events of the lines of one file, in order.
RECURSIVE StreamEvents(_)
StreamEvents(lines) ==
    IF lines = <<>> THEN <<>>
    ELSE DeserializeEvent(Head(lines)) \o StreamEvents(Tail(lines))

\* _iter_fallback_files: ticks before books, each kind's files sorted by name.
FallbackFileOrder ==
    <<<<"ticks", "1970-01-01">>, <<"ticks", "2024-01-02">>,
      <<"books", "1970-01-01">>, <<"books", "2024-01-02">>>>

\* The rows one file contributes: its tick events through insert_events, then its book events.
ReplayFile(lines) ==
    RowsOf(SelectSeq(StreamEvents(lines), LAMBDA e : e.type = "MD_TICK"))
        \o RowsOf(SelectSeq(StreamEvents(lines), LAMBDA e : e.type = "MD_BOOK"))

\* run_restore(mode="apply"): every file in order.
ReplayAll(files) ==
    ReplayFile(files[FallbackFileOrder[1]]) \o ReplayFile(files[FallbackFileOrder[2]])
        \o ReplayFile(files[FallbackFileOrder[3]]) \o ReplayFile(files[FallbackFileOrder[4]])

\* run_restore(fallback_dir, mode="apply", writer, archive_dir): the rows of
\* every fallback file are inserted; with an archive directory each processed
\* file is moved out of the fallback directory.
Restore_apply ==
    /\ fallback_dir = "path"
    /\ restoreRuns < MaxRestores
    /\ restoreRuns' = restoreRuns + 1
    /\ restoredUpTo' = Len(attempts)
    /\ restored' = restored \o ReplayAll(fallbackFiles)
    /\ \E archive \in BOOLEAN :
          fallbackFiles' = IF archive THEN [f \in Kinds \X Days |-> <<>>] ELSE fallbackFiles
    /\ UNCHANGED <<fallback_dir, tick_buffer, book_buffer, failed_batch_history, attempts,
                   written>>
    /\ UNCHANGED OtherThanWriterAndRestore

RNext ==
    \/ ClickHouse_init
    \/ ClickHouse_write_batch
    \/ ClickHouse_flush
    \/ Restore_apply

SpecRestore == Init /\ [][RNext]_vars

(***************************************************************************)
(* RawWriter: the files of one partition and their rotation                *)
(***************************************************************************)

\* _create_state(path, index): opening in append mode creates a missing file;
\* event_count starts at 0 and bytes_written at the size the file already has.
CreateState(files, index) ==
    LET fs == IF index > Len(files) THEN Append(files, [events |-> 0, bytes |-> 0]) ELSE files
    IN  [files |-> fs,
         state |-> [index |-> index, event_count |-> 0, bytes_written |-> fs[index].bytes]]

\* _open_latest_state: the file of the highest index (or index 1), and the
\* next index when that file already has max_file_size_bytes.
OpenLatestState(files) ==
    LET first == CreateState(files, IF files = <<>> THEN 1 ELSE Len(files))
    IN  IF first.state.bytes_written >= max_file_size_bytes
        THEN CreateState(first.files, first.state.index + 1)
        ELSE first

\* _ensure_state: the state kept for the partition, or the latest file's.
EnsureState(files, st) ==
    IF st = <<>> THEN OpenLatestState(files) ELSE [files |-> files, state |-> st[1]]

\* write_event: rotate when the state has reached a limit, then append the
\* line and count it; an event that does not serialize is not written.
WriteEvent(files, st, ev) ==
    LET ensured == EnsureState(files, st)
        cur == IF \/ ensured.state.bytes_written >= max_file_size_bytes
                  \/ ensured.state.event_count >= max_events_per_file
               THEN CreateState(ensured.files, ensured.state.index + 1)
               ELSE ensured
    IN  IF ~ev.ser THEN cur
        ELSE [files |-> [cur.files EXCEPT ![cur.state.index] =
                            [events |-> @.events + 1, bytes |-> @.bytes + ev.size]],
              state |-> [cur.state EXCEPT !.event_count = @ + 1,
                                          !.bytes_written = @ + ev.size]]

\* The events a call may be given: a line of 1..MaxLine bytes, or one that
\* does not serialize.
RawEventsIn == [size : 1..MaxLine, ser : BOOLEAN]

RECURSIVE WriteAll(_, _, _)
WriteAll(files, st, evs) ==
    IF evs = <<>> THEN [files |-> files, state |-> st]
    ELSE LET one == WriteEvent(files, st, Head(evs))
         IN  WriteAll(one.files, <<one.state>>, Tail(evs))

\* write_event(event)
Raw_write_event ==
    /\ rawEvents < MaxRawEvents
    /\ \E ev \in RawEventsIn :
          LET after == WriteEvent(rawFiles, rawState, ev)
          IN  /\ rawFiles' = after.files
              /\ rawState' = <<after.state>>
    /\ rawEvents' = rawEvents + 1
    /\ UNCHANGED OtherThanRawWriter

\* write_batch(ticks, books) on the synchronous path: write_event for each
\* event of the two lists, then a flush of the touched handles.
Raw_write_batch ==
    /\ rawEvents + 2 <= MaxRawEvents
    /\ \E evs \in [1..2 -> RawEventsIn] :
          LET after == WriteAll(rawFiles, rawState, evs)
          IN  /\ rawFiles' = after.files
              /\ rawState' = after.state
    /\ rawEvents' = rawEvents + 2
    /\ UNCHANGED OtherThanRawWriter

\* close_all() and a new RawWriter over the same root: the states are gone,
\* the files stay.
Raw_restart ==
    /\ rawState # <<>>
    /\ rawState' = <<>>
    /\ UNCHANGED <<rawFiles, rawEvents>>
    /\ UNCHANGED OtherThanRawWriter

RWNext ==
    \/ Raw_write_event
    \/ Raw_write_batch
    \/ Raw_restart

SpecRawWriter == Init /\ [][RWNext]_vars

(***************************************************************************)
(* SubscriptionManager: fan-out of a plan over the sessions of a pool      *)
(***************************************************************************)

\* ConnectionPool.get_session(index): sessions[index % len(sessions)].
SessionOf(index) == index % nSessions

\* subscribe_universe, step 2: target i goes to bucket i % pool.size.
Bucket(targets, size, b) ==
    LET idx == {i \in 1..Len(targets) : (i - 1) % size = b}
        RECURSIVE Pick(_)
        Pick(i) == IF i > Len(targets) THEN <<>>
                   ELSE (IF i \in idx THEN <<targets[i]>> ELSE <<>>) \o Pick(i + 1)
    IN  Pick(1)

\* _subscribe_batch: a bucket above max_subscriptions is cut to its first entries.
Capped(targets) ==
    IF Len(targets) > max_subscriptions THEN SubSeq(targets, 1, max_subscriptions)
    ELSE targets

PcFor(work) == IF work = <<>> THEN "idle" ELSE "check"

\* ConnectionPool(size, sessions) and SubscriptionManager(pool, plan).
Manager_init ==
    /\ poolSize = 0
    /\ \E size \in 1..MaxPool, n \in 1..MaxPool, targets \in SeqsOf(Keys, 1, MaxPlan) :
          /\ poolSize' = size
          /\ nSessions' = n
          /\ plan' = targets
    /\ UNCHANGED <<subscribed, subWork, subWorkerPc, active, universeCalls, unsubLog,
                   brokerRaised>>
    /\ UNCHANGED OtherThanSubscriptions

\* subscribe_universe: deal the targets into pool.size buckets and submit
\* _subscribe_batch for every bucket that is not empty; the call returns when
\* every worker has finished.
Manager_subscribe_universe ==
    /\ poolSize > 0
    /\ universeCalls < MaxUniverseCalls
    /\ \A i \in Indices : subWorkerPc[i] = "idle"
    /\ universeCalls' = universeCalls + 1
    /\ subWork' = [i \in Indices |->
                      IF i < poolSize THEN Capped(Bucket(plan, poolSize, i)) ELSE <<>>]
    /\ subWorkerPc' = [i \in Indices |-> PcFor(subWork'[i])]
    /\ UNCHANGED <<poolSize, nSessions, plan, subscribed, active, unsubLog, brokerRaised>>
    /\ UNCHANGED OtherThanSubscriptions

\* _subscribe_batch, under the lock: a key that is already tracked is skipped.
SubWorker_check(i) ==
    /\ subWorkerPc[i] = "check"
    /\ IF subscribed[Head(subWork[i])] # -1
       THEN /\ subWork' = [subWork EXCEPT ![i] = Tail(@)]
            /\ subWorkerPc' = [subWorkerPc EXCEPT ![i] = PcFor(Tail(subWork[i]))]
       ELSE /\ subWorkerPc' = [subWorkerPc EXCEPT ![i] = "subscribe"]
            /\ UNCHANGED subWork
    /\ UNCHANGED <<poolSize, nSessions, plan, subscribed, active, universeCalls, unsubLog,
                   brokerRaised>>
    /\ UNCHANGED OtherThanSubscriptions

\* What the broker does with the two subscribe calls for one contract: both
\* accepted, the first call (or get_contract) raises, or the second raises.
SubscribeOutcomes == {"ok", "raises", "bidask_raises"}

\* _subscribe_batch, outside the lock: get_contract and _subscribe_contract on
\* the worker's session, then the key is tracked; an exception skips the key.
SubWorker_subscribe(i) ==
    /\ subWorkerPc[i] = "subscribe"
    /\ \E outcome \in SubscribeOutcomes :
          LET key == Head(subWork[i])
              x == SessionOf(i)
          IN  /\ active' =
                    [active EXCEPT ![x] =
                        [c \in Keys \X QuoteTypes |->
                            IF c[1] = key /\ \/ outcome = "ok"
                                             \/ outcome = "bidask_raises" /\ c[2] = "tick"
                            THEN @[c] + 1 ELSE @[c]]]
              /\ subscribed' = IF outcome = "ok" THEN [subscribed EXCEPT ![key] = i]
                               ELSE subscribed
              /\ brokerRaised' = (brokerRaised \/ outcome # "ok")
    /\ subWork' = [subWork EXCEPT ![i] = Tail(@)]
    /\ subWorkerPc' = [subWorkerPc EXCEPT ![i] = PcFor(Tail(subWork[i]))]
    /\ UNCHANGED <<poolSize, nSessions, plan, universeCalls, unsubLog>>
    /\ UNCHANGED OtherThanSubscriptions

\* What happens to the unsubscribe calls for one tracked contract: both made,
\* none (get_session / get_api raises), or the first call raises.
UnsubscribeOutcomes == {"ok", "api_raises", "tick_raises"}

\* unsubscribe_all: the tracking map is copied and cleared under the lock, then
\* each tracked contract is unsubscribed on its session; an exception is ignored.
Manager_unsubscribe_all ==
    /\ poolSize > 0
    /\ Len(unsubLog) < MaxUnsubscribeCalls
    /\ \A i \in Indices : subWorkerPc[i] = "idle"
    /\ \E outcome \in [{k \in Keys : subscribed[k] # -1} -> UnsubscribeOutcomes] :
          LET items == DOMAIN outcome
              Gone(x, c) == /\ c[1] \in items
                            /\ SessionOf(subscribed[c[1]]) = x
                            /\ outcome[c[1]] = "ok"
                            /\ active[x][c] > 0
          IN  /\ active' = [x \in Indices |-> [c \in Keys \X QuoteTypes |->
                                IF Gone(x, c) THEN active[x][c] - 1 ELSE active[x][c]]]
              /\ unsubLog' = Append(unsubLog,
                    [calls |-> 2 * Cardinality({k \in items : outcome[k] = "ok"})
                                 + Cardinality({k \in items : outcome[k] = "tick_raises"}),
                     raised |-> \E k \in items : outcome[k] # "ok",
                     tracked |-> Cardinality(items)])
    /\ subscribed' = [k \in Keys |-> -1]
    /\ UNCHANGED <<poolSize, nSessions, plan, subWork, subWorkerPc, universeCalls,
                   brokerRaised>>
    /\ UNCHANGED OtherThanSubscriptions

SNext ==
    \/ Manager_init
    \/ Manager_subscribe_universe
    \/ \E i \in Indices : SubWorker_check(i)
    \/ \E i \in Indices : SubWorker_subscribe(i)
    \/ Manager_unsubscribe_all

SpecSubscriptions == Init /\ [][SNext]_vars

(***************************************************************************)
(* The shared-memory ring buffer (shijim/ipc/ring_buffer.py).  The producer *)
(* is the gateway core, which lives outside this source tree; it follows   *)
(* the documented protocol: write the slot, then publish by incrementing   *)
(* write_cursor.  Its slot write is one step here, the most favourable     *)
(* granularity for the reader.  The reader's methods are split where they  *)
(* touch shared memory: the header read, the seq_num read, the payload     *)
(* read.                                                                   *)
(***************************************************************************)
\* RingBufferReader._get_slot_index for cursor > 0.
GetSlotIndex(cursor) == (cursor - 1) % SLOT_COUNT

\* Producer: fill the slot of the next sequence number (payload and seq_num).
Producer_write_slot ==
    /\ ppc = "idle"
    /\ write_cursor < MaxCursor
    /\ slots' = [slots EXCEPT ![GetSlotIndex(write_cursor + 1)] =
                    [seq_num |-> write_cursor + 1, payload |-> write_cursor + 1]]
    /\ ppc' = "written"
    /\ UNCHANGED <<write_cursor, rpc, rMethod, rCursor, rSeen, rHanded, rRaised>>
    /\ UNCHANGED OtherThanRingBuffer

\* Producer: publish the slot by incrementing write_cursor.
Producer_publish ==
    /\ ppc = "written"
    /\ write_cursor' = write_cursor + 1
    /\ ppc' = "idle"
    /\ UNCHANGED <<slots, rpc, rMethod, rCursor, rSeen, rHanded, rRaised>>
    /\ UNCHANGED OtherThanRingBuffer

\* The body of read_at(cursor): ValueError for cursor 0, else compare the slot's
\* seq_num with the cursor; every mismatch raises DataIntegrityError; a match
\* returns the row, a view over the shared slot.
ReadAt(cursor) ==
    IF cursor = 0
    THEN /\ rRaised' = <<[error |-> "ValueError", cursor |-> 0, seq_num |-> 0]>>
         /\ rSeen' = 0
         /\ rpc' = "idle"
    ELSE LET seq == slots[GetSlotIndex(cursor)].seq_num
         IN  /\ rSeen' = seq
             /\ IF seq # cursor
                THEN /\ rRaised' = <<[error |-> "DataIntegrityError",
                                      cursor |-> cursor, seq_num |-> seq]>>
                     /\ rpc' = "idle"
                ELSE /\ rRaised' = <<>>
                     /\ rpc' = "holding"

\* read_at(cursor) with a cursor the consumer supplies.
Reader_read_at(cursor) ==
    /\ rpc = "idle"
    /\ rMethod' = "read_at"
    /\ rCursor' = cursor
    /\ rHanded' = <<>>
    /\ ReadAt(cursor)
    /\ UNCHANGED <<write_cursor, slots, ppc>>
    /\ UNCHANGED OtherThanRingBuffer

\* latest() and latest_bytes(): read write_cursor from the header; ValueError
\* when it is 0.
Reader_read_cursor(method) ==
    /\ rpc = "idle"
    /\ rMethod' = method
    /\ rCursor' = write_cursor
    /\ rHanded' = <<>>
    /\ rSeen' = 0
    /\ IF write_cursor = 0
       THEN /\ rRaised' = <<[error |-> "ValueError", cursor |-> 0, seq_num |-> 0]>>
            /\ rpc' = "idle"
       ELSE /\ rRaised' = <<>>
            /\ rpc' = method
    /\ UNCHANGED <<write_cursor, slots, ppc>>
    /\ UNCHANGED OtherThanRingBuffer

\* latest(): return self.read_at(cursor).
Reader_latest_read_at ==
    /\ rpc = "latest"
    /\ ReadAt(rCursor)
    /\ UNCHANGED <<write_cursor, slots, ppc, rMethod, rCursor, rHanded>>
    /\ UNCHANGED OtherThanRingBuffer

\* latest_bytes(): copy the payload of the slot of the cursor; seq_num is not read.
Reader_latest_bytes_copy ==
    /\ rpc = "latest_bytes"
    /\ LET row == slots[GetSlotIndex(rCursor)]
       IN  rHanded' = <<[method |-> "latest_bytes", cursor |-> rCursor,
                         seq_num |-> row.seq_num, payload |-> row.payload]>>
    /\ rpc' = "idle"
    /\ UNCHANGED <<write_cursor, slots, ppc, rMethod, rCursor, rSeen, rRaised>>
    /\ UNCHANGED OtherThanRingBuffer

\* The consumer reads the payload through the row that read_at or latest returned.
Reader_consume_row ==
    /\ rpc = "holding"
    /\ LET row == slots[GetSlotIndex(rCursor)]
       IN  rHanded' = <<[method |-> rMethod, cursor |-> rCursor,
                         seq_num |-> row.seq_num, payload |-> row.payload]>>
    /\ rpc' = "idle"
    /\ UNCHANGED <<write_cursor, slots, ppc, rMethod, rCursor, rSeen, rRaised>>
    /\ UNCHANGED OtherThanRingBuffer

RBNext ==
    \/ Producer_write_slot
    \/ Producer_publish
    \/ \E cursor \in 0..MaxCursor : Reader_read_at(cursor)
    \/ \E method \in {"latest", "latest_bytes"} : Reader_read_cursor(method)
    \/ Reader_latest_read_at
    \/ Reader_latest_bytes_copy
    \/ Reader_consume_row

SpecRingBuffer == Init /\ [][RBNext]_vars

(***************************************************************************)
(* The smart-chasing strategy (shijim/strategy/engine.py, ofi.py).         *)
(***************************************************************************)
OrderState == {"IDLE", "WORKING", "CHASING", "FILLED"}
Prices == 1..MaxPrice
Sizes == 1..MaxSize
\* The top-of-book snapshots given to on_tick (the ask size is held at one lot; the
\* ask imbalance still takes every sign through the ask price).
BookPrices == 1..MaxBid
BboStates == [bid_price : BookPrices, bid_size : Sizes, ask_price : BookPrices, ask_size : {1}]
\* ofi_override: <<>> for None, or <<signal>>.
OfiOverrides == {<<>>, <<-1>>, <<0>>, <<1>>}

\* OfiCalculator._bid_imbalance and _ask_imbalance.
BidImbalance(prev, curr) ==
    IF curr.bid_price > prev.bid_price THEN curr.bid_size
    ELSE IF curr.bid_price = prev.bid_price THEN curr.bid_size - prev.bid_size
    ELSE 0 - prev.bid_size

AskImbalance(prev, curr) ==
    IF curr.ask_price < prev.ask_price THEN curr.ask_size
    ELSE IF curr.ask_price = prev.ask_price THEN curr.ask_size - prev.ask_size
    ELSE 0 - prev.ask_size

\* OfiCalculator.process_tick: net_ofi; a cold start gives the neutral signal.
NetOfi(prev, curr) ==
    IF prev = <<>> THEN 0 ELSE BidImbalance(prev[1], curr) - AskImbalance(prev[1], curr)

\* The states in which on_tick returns at once.
GuardedChasingOnly(st) == st = "CHASING"

Guarded(st) == st \in {"CHASING", "IDLE"}

\* ofi_signal: the override when one is given, else the calculator's net_ofi.
OfiSignal(bbo, ofi_override) ==
    IF ofi_override # <<>> THEN ofi_override[1] ELSE NetOfi(prev_state, bbo)

\* should_chase = price_diff > self.config.chase_threshold
ShouldChaseAtThreshold(price_diff) == price_diff >= config.chase_threshold

ShouldChase(price_diff) == price_diff > config.chase_threshold

\* An on_tick past the state guard that has no cap on the rounds.
DecideWithoutCap(bbo, ofi_override) ==
    LET ofi_signal == OfiSignal(bbo, ofi_override)
        market_bid == bbo.bid_price
        price_diff == market_bid - order_price
        alpha_push == price_diff >= config.chase_threshold /\ ofi_signal > 0
        keep == [state |-> state, chase_count |-> chase_count, order_price |-> order_price,
                 logs |-> <<>>, requests |-> <<>>]
    IN  IF price_diff <= 0 THEN keep
        ELSE IF ~ShouldChase(price_diff) /\ ~alpha_push THEN keep
        ELSE IF ofi_signal < 0 /\ ShouldChase(price_diff) THEN keep
        ELSE [keep EXCEPT !.state = "CHASING",
                          !.chase_count = chase_count + 1,
                          !.order_price = market_bid,
                          !.requests = <<[action |-> "CANCEL_REPLACE", price |-> <<market_bid>>,
                                          quantity |-> order_qty, reason |-> "PriceDrift"]>>]

\* SmartChasingEngine.on_tick past the state guard: the new state, chase_count and
\* order_price, the log lines and the requests returned (a price is <<>> for None).
Decide(bbo, ofi_override) ==
    LET ofi_signal == OfiSignal(bbo, ofi_override)
        market_bid == bbo.bid_price
        price_diff == market_bid - order_price
        should_chase == ShouldChase(price_diff)
        alpha_push == price_diff >= config.chase_threshold /\ ofi_signal > 0
        keep == [state |-> state, chase_count |-> chase_count, order_price |-> order_price,
                 logs |-> <<>>, requests |-> <<>>]
    IN  IF chase_count >= config.max_chase_round /\ price_diff > 0
        THEN [keep EXCEPT !.state = "IDLE",
                          !.requests = <<[action |-> "CANCEL", price |-> <<>>,
                                          quantity |-> order_qty,
                                          reason |-> "MaxChaseReached"]>>]
        ELSE IF price_diff <= 0 THEN keep
        ELSE IF ~should_chase /\ ~alpha_push THEN keep
        ELSE IF ofi_signal < 0 /\ should_chase
        THEN [keep EXCEPT !.logs = <<"Hold: Negative Alpha Protection">>]
        ELSE [keep EXCEPT !.state = "CHASING",
                          !.chase_count = chase_count + 1,
                          !.order_price = market_bid,
                          !.requests = <<[action |-> "CANCEL_REPLACE", price |-> <<market_bid>>,
                                          quantity |-> order_qty,
                                          reason |-> IF alpha_push /\ ofi_signal > 0
                                                     THEN "AlphaDriven"
                                                     ELSE "PriceDrift"]>>]

\* SmartChasingEngine(...): __post_init__ turns IDLE into WORKING and seeds a
\* calculator when none is given; a given calculator may be cold.
Engine_init ==
    /\ state = "none"
    /\ \E threshold \in 0..MaxThreshold, rounds \in 0..MaxRound :
          config' = [chase_threshold |-> threshold, max_chase_round |-> rounds]
    /\ \E st \in OrderState : state' = IF st = "IDLE" THEN "WORKING" ELSE st
    /\ chase_count' = 0
    /\ \E price \in Prices, qty \in Sizes, cold \in BOOLEAN :
          /\ order_price' = price
          /\ order_qty' = qty
          /\ prev_state' = IF cold THEN <<>>
                           ELSE <<[bid_price |-> price, bid_size |-> qty,
                                   ask_price |-> price, ask_size |-> qty]>>
    /\ logs' = <<>>
    /\ lastTick' = <<>>
    /\ UNCHANGED OtherThanStrategy

\* on_tick(bbo, ofi_override).
Engine_on_tick(bbo, ofi_override) ==
    /\ state # "none"
    /\ IF Guarded(state)
       THEN /\ logs' = <<>>
            /\ lastTick' = <<[state |-> state, chase_count |-> chase_count,
                              order_price |-> order_price, ofi |-> 0,
                              requests |-> <<>>]>>
            /\ UNCHANGED <<state, chase_count, order_price, prev_state>>
       ELSE LET d == Decide(bbo, ofi_override)
            IN  /\ prev_state' = <<bbo>>
                /\ state' = d.state
                /\ chase_count' = d.chase_count
                /\ order_price' = d.order_price
                /\ logs' = d.logs
                /\ lastTick' = <<[state |-> state, chase_count |-> chase_count,
                                  order_price |-> order_price,
                                  ofi |-> OfiSignal(bbo, ofi_override),
                                  requests |-> d.requests]>>
    /\ UNCHANGED <<config, order_qty>>
    /\ UNCHANGED OtherThanStrategy

\* order_manager.transition(new_state), called by the owner of the engine.
Manager_transition(new_state) ==
    /\ state # "none"
    /\ state' = new_state
    /\ lastTick' = <<>>
    /\ UNCHANGED <<config, chase_count, order_price, order_qty, prev_state, logs>>
    /\ UNCHANGED OtherThanStrategy

ENext ==
    \/ Engine_init
    \/ \E bbo \in BboStates, ofi_override \in OfiOverrides : Engine_on_tick(bbo, ofi_override)
    \/ \E new_state \in OrderState : Manager_transition(new_state)

SpecStrategy == Init /\ [][ENext]_vars

(***************************************************************************)
(* The risk gate (shijim/risk/manager.py, guards.py).  send is one call     *)
(* whose loop is taken one order at a time; nothing else runs inside it.    *)
(***************************************************************************)
\* The orders given to send: a CANCEL as the strategy makes it (no price), and
\* CANCEL_REPLACE orders with or without a price (<<>> is None).
Orders ==
    [action : {"CANCEL"}, price : {<<>>}, quantity : {1}, side : {"BUY"}]
    \cup [action : {"CANCEL_REPLACE"}, price : {<<>>} \cup {<<p>> : p \in Prices},
          quantity : 1..MaxQty, side : {"BUY", "SELL"}]

Abs(x) == IF x < 0 THEN 0 - x ELSE x

\* KillSwitch.check: the reason, "" when the order passes.
KillSwitchCheck(order) ==
    IF ~kill_active THEN ""
    ELSE IF order.action = "CANCEL" THEN ""
    ELSE "KillSwitch"

\* FatFingerGuard.check; deviation > price_deviation is compared in percent.
FatFingerCheck(order) ==
    IF order.action = "CANCEL" THEN ""
    ELSE IF order.price = <<>> THEN ""
    ELSE IF Abs(order.price[1] - ref_price) * 100 > price_deviation_pct * ref_price
    THEN "PriceDeviation"
    ELSE IF order.quantity > max_order_qty THEN "MaxOrderQty"
    ELSE ""

\* PositionGuard.check.
PositionCheck(order) ==
    IF order.action = "CANCEL" THEN ""
    ELSE LET qty == IF order.side = "SELL" THEN 0 - order.quantity ELSE order.quantity
         IN  IF Abs(position + qty) > max_position THEN "PositionLimit" ELSE ""

\* RateLimiter._refill: the tokens after the refill.
Refilled == IF tokens + elapsed > max_orders_per_sec THEN max_orders_per_sec
            ELSE tokens + elapsed

\* RiskAwareGateway._check before the rate limiter: the reason of the first of
\* kill switch, fat-finger and position guard that fails, "" when none does.
GuardsCheck(order) ==
    IF KillSwitchCheck(order) # "" THEN KillSwitchCheck(order)
    ELSE IF FatFingerCheck(order) # "" THEN FatFingerCheck(order)
    ELSE PositionCheck(order)

\* result.passed, for the reason _check gave.
PassedAlways(reason) == TRUE

Passed(reason) == reason = ""

\* RiskAwareGateway(...): the guards take the market price and the position; the
\* bucket starts full.
Gateway_init ==
    /\ gwPc = "none"
    /\ gwPc' = "idle"
    /\ kill_active' = FALSE
    /\ \E price \in Prices : ref_price' = price
    /\ \E pos \in (0 - max_position)..max_position : position' = pos
    /\ tokens' = max_orders_per_sec
    /\ elapsed' = 0
    /\ UNCHANGED <<valid, sendLog, innerReceived, rejectEvents>>
    /\ UNCHANGED OtherThanRiskGate

\* What every call other than send leaves of the record of the last send.
ForgetLastSend ==
    /\ valid' = <<>>
    /\ sendLog' = <<>>
    /\ innerReceived' = <<>>
    /\ rejectEvents' = <<>>

\* update_market_price(price).
Gateway_update_market_price(price) ==
    /\ gwPc = "idle"
    /\ ref_price' = price
    /\ ForgetLastSend
    /\ UNCHANGED <<gwPc, kill_active, position, tokens, elapsed>>
    /\ UNCHANGED OtherThanRiskGate

\* update_position(filled_qty, side); fills stay within one lot of the limit here.
Gateway_update_position(filled_qty, side) ==
    /\ gwPc = "idle"
    /\ LET next == position + (IF side = "BUY" THEN filled_qty ELSE 0 - filled_qty)
       IN  /\ Abs(next) <= max_position + 1
           /\ position' = next
    /\ ForgetLastSend
    /\ UNCHANGED <<gwPc, kill_active, ref_price, tokens, elapsed>>
    /\ UNCHANGED OtherThanRiskGate

\* activate_kill() and deactivate_kill().
Gateway_set_kill(on) ==
    /\ gwPc = "idle"
    /\ kill_active' = on
    /\ ForgetLastSend
    /\ UNCHANGED <<gwPc, ref_price, position, tokens, elapsed>>
    /\ UNCHANGED OtherThanRiskGate

\* Time passes: one more token of refill is due, up to a full bucket.
Clock_advance ==
    /\ gwPc = "idle"
    /\ elapsed < max_orders_per_sec
    /\ elapsed' = elapsed + 1
    /\ ForgetLastSend
    /\ UNCHANGED <<gwPc, kill_active, ref_price, position, tokens>>
    /\ UNCHANGED OtherThanRiskGate

\* send(orders), one turn of its loop: _check(order), then valid.append(order) or
\* the RiskReject event.  The first turn of a call starts from empty records.
Gateway_send_check(order) ==
    /\ gwPc \in {"idle", "sending"}
    /\ gwPc = "sending" => Len(sendLog) < MaxOrders
    /\ gwPc' = "sending"
    /\ LET first == gwPc = "idle"
           log == IF first THEN <<>> ELSE sendLog
           ok == IF first THEN <<>> ELSE valid
           events == IF first THEN <<>> ELSE rejectEvents
           guards == GuardsCheck(order)
           reason == IF guards # "" THEN guards
                     ELSE IF Refilled < 1 THEN "RateLimit" ELSE ""
       IN  /\ IF guards # ""
              THEN UNCHANGED <<tokens, elapsed>>
              ELSE /\ tokens' = IF Refilled < 1 THEN Refilled ELSE Refilled - 1
                   /\ elapsed' = 0
           /\ sendLog' = Append(log, [order |-> order,
                                      tokens |-> IF guards # "" THEN tokens ELSE Refilled,
                                      reason |-> reason])
           /\ valid' = IF Passed(reason) THEN Append(ok, order) ELSE ok
           /\ rejectEvents' = IF Passed(reason) THEN events
                              ELSE Append(events, [type |-> "RiskReject",
                                                   reason |-> reason, order |-> order])
    /\ innerReceived' = <<>>
    /\ UNCHANGED <<kill_active, ref_price, position>>
    /\ UNCHANGED OtherThanRiskGate

\* send(orders), after the loop: inner_gateway.send(valid) unless valid is empty.
Gateway_send_forward ==
    /\ gwPc = "sending"
    /\ gwPc' = "idle"
    /\ innerReceived' = valid
    /\ UNCHANGED <<kill_active, ref_price, position, tokens, elapsed, valid, sendLog,
                   rejectEvents>>
    /\ UNCHANGED OtherThanRiskGate

GNext ==
    \/ Gateway_init
    \/ \E price \in Prices : Gateway_update_market_price(price)
    \/ \E filled_qty \in 1..MaxQty, side \in {"BUY", "SELL"} :
          Gateway_update_position(filled_qty, side)
    \/ \E on \in BOOLEAN : Gateway_set_kill(on)
    \/ Clock_advance
    \/ \E order \in Orders : Gateway_send_check(order)
    \/ Gateway_send_forward

SpecRiskGate == Init /\ [][GNext]_vars

(***************************************************************************)
(* The execution adapter (shijim/execution/order_manager.py): send_order on *)
(* the execution thread, update_from_callback on the broker-callback        *)
(* thread.  The class holds no lock, so the steps of the two interleave at  *)
(* every access of self.orders.  The broker reports each of its orders     *)
(* with statuses that only move forward.                                   *)
(***************************************************************************)
\* OrderState(internal_id): status PENDING, no broker id (0), nothing filled
\* (last_error, which nothing reads, is left out).
NewOrderState == [status |-> "PENDING", broker_id |-> 0, filled_qty |-> 0, avg_price |-> 0]

\* The requests given to send_order; internal_id "" is a request without one.
Requests == [action : {"CANCEL", "CANCEL_REPLACE"}, internal_id : InternalIds \cup {""}]

\* What a broker callback carries: status, filled quantity and price.
CallbackArgs ==
    { [status |-> "SUBMITTED", filled_qty |-> 0, price |-> 0],
      [status |-> "PARTIAL", filled_qty |-> 1, price |-> 1],
      [status |-> "FILLED", filled_qty |-> 2, price |-> 1],
      [status |-> "CANCELLED", filled_qty |-> 0, price |-> 0],
      [status |-> "REJECTED", filled_qty |-> 0, price |-> 0] }

\* The place of a status in the lifecycle PENDING, SUBMITTED, PARTIAL, then FILLED
\* or CANCELLED or REJECTED ("none": the broker has reported nothing yet).
Rank(status) ==
    IF status \in {"none", "PENDING"} THEN 0
    ELSE IF status = "SUBMITTED" THEN 1
    ELSE IF status = "PARTIAL" THEN 2
    ELSE 3

\* The first broker id not yet given out, 0 when the broker takes no more orders.
NextBrokerId ==
    IF \E b \in BrokerIds : brokerOrders[b] = <<>>
    THEN CHOOSE b \in BrokerIds :
            brokerOrders[b] = <<>> /\ \A c \in BrokerIds : c < b => brokerOrders[c] # <<>>
    ELSE 0

\* update_from_callback, the reverse lookup: the internal id whose state carries
\* the broker id, "none" when there is none.
TargetOf(broker_id) ==
    IF \E i \in InternalIds : orders[i] # <<>> /\ orders[i][1].broker_id = broker_id
    THEN CHOOSE i \in InternalIds : orders[i] # <<>> /\ orders[i][1].broker_id = broker_id
    ELSE "none"

\* The internal id the broker holds the order for, "none" for an id it never gave.
OwnerOf(broker_id) ==
    IF broker_id \in BrokerIds /\ brokerOrders[broker_id] # <<>>
    THEN brokerOrders[broker_id][1].internal_id
    ELSE "none"

\* send_order(req) up to the dispatch: a request without internal_id is dropped;
\* the state is created when the id is new.
Exec_send_order(req) ==
    /\ xPc = "idle"
    /\ lastCb' = <<>>
    /\ IF req.internal_id = ""
       THEN UNCHANGED <<orders, xPc, xReq>>
       ELSE /\ orders' = IF orders[req.internal_id] = <<>>
                         THEN [orders EXCEPT ![req.internal_id] = <<NewOrderState>>]
                         ELSE orders
            /\ xReq' = <<req>>
            /\ xPc' = IF req.action = "CANCEL" THEN "cancel" ELSE "place"
    /\ UNCHANGED <<cbPc, cbArgs, cbTarget, brokerOrders>>
    /\ UNCHANGED OtherThanOrderManager

\* _place_order: api.place_order(contract, order, timeout=0) returns a trade with a
\* broker id, a trade without one, nothing, or raises; the broker has taken the
\* order in the first three cases.  With an id the state gets the broker id
\* here and the status in the next step.
Exec_place(outcome) ==
    /\ xPc = "place"
    /\ LET id == xReq[1].internal_id
           b == NextBrokerId
       IN  IF outcome = "raises"
           THEN /\ orders' = [orders EXCEPT ![id] =
                                <<[@[1] EXCEPT !.status = "FAILED"]>>]
                /\ xPc' = "idle"
                /\ UNCHANGED brokerOrders
           ELSE /\ b # 0
                /\ brokerOrders' = [brokerOrders EXCEPT ![b] =
                                       <<[internal_id |-> id, status |-> "none"]>>]
                /\ IF outcome = "trade_with_id"
                   THEN /\ orders' = [orders EXCEPT ![id] = <<[@[1] EXCEPT !.broker_id = b]>>]
                        /\ xPc' = "set_status"
                   ELSE IF outcome = "trade_without_id"
                   THEN /\ orders' = [orders EXCEPT ![id] =
                                        <<[@[1] EXCEPT !.status = "SUBMITTED_ASYNC"]>>]
                        /\ xPc' = "idle"
                   ELSE /\ xPc' = "idle"
                        /\ UNCHANGED orders
    /\ xReq' = IF outcome = "trade_with_id" THEN xReq ELSE <<>>
    /\ lastCb' = <<>>
    /\ UNCHANGED <<cbPc, cbArgs, cbTarget>>
    /\ UNCHANGED OtherThanOrderManager

\* _place_order: self.orders[req.internal_id].status = "SUBMITTED".
Exec_set_status ==
    /\ xPc = "set_status"
    /\ orders' = [orders EXCEPT ![xReq[1].internal_id] =
                     <<[@[1] EXCEPT !.status = "SUBMITTED"]>>]
    /\ xPc' = "idle"
    /\ xReq' = <<>>
    /\ lastCb' = <<>>
    /\ UNCHANGED <<cbPc, cbArgs, cbTarget, brokerOrders>>
    /\ UNCHANGED OtherThanOrderManager

\* _cancel_order: dropped without a broker id, else api.cancel_order; the map is
\* not written either way.
Exec_cancel ==
    /\ xPc = "cancel"
    /\ xPc' = "idle"
    /\ xReq' = <<>>
    /\ lastCb' = <<>>
    /\ UNCHANGED <<orders, cbPc, cbArgs, cbTarget, brokerOrders>>
    /\ UNCHANGED OtherThanOrderManager

\* update_from_callback(broker_id, status, filled_qty, price), the lookup: without
\* a target the call returns.
Callback_lookup(broker_id, args) ==
    /\ cbPc = "idle"
    /\ \/ broker_id = ForeignBrokerId
       \/ /\ broker_id \in BrokerIds
          /\ brokerOrders[broker_id] # <<>>
          /\ Rank(args.status) > Rank(brokerOrders[broker_id][1].status)
    /\ brokerOrders' = IF broker_id \in BrokerIds
                       THEN [brokerOrders EXCEPT ![broker_id] =
                                <<[@[1] EXCEPT !.status = args.status]>>]
                       ELSE brokerOrders
    /\ LET full == [broker_id |-> broker_id, status |-> args.status,
                    filled_qty |-> args.filled_qty, price |-> args.price,
                    owner |-> OwnerOf(broker_id),
                    late |-> /\ OwnerOf(broker_id) # "none"
                             /\ orders[OwnerOf(broker_id)][1].broker_id # broker_id,
                    before |-> orders]
       IN  IF TargetOf(broker_id) = "none"
           THEN /\ lastCb' = <<full>>
                /\ UNCHANGED <<cbPc, cbArgs, cbTarget>>
           ELSE /\ cbPc' = "update"
                /\ cbArgs' = <<full>>
                /\ cbTarget' = TargetOf(broker_id)
                /\ lastCb' = <<>>
    /\ UNCHANGED <<orders, xPc, xReq>>
    /\ UNCHANGED OtherThanOrderManager

\* update_from_callback, the update of the target's status, filled_qty, avg_price.
Callback_update ==
    /\ cbPc = "update"
    /\ orders' = [orders EXCEPT ![cbTarget] =
                     <<[@[1] EXCEPT !.status = cbArgs[1].status,
                                    !.filled_qty = cbArgs[1].filled_qty,
                                    !.avg_price = cbArgs[1].price]>>]
    /\ cbPc' = "idle"
    /\ lastCb' = cbArgs
    /\ cbArgs' = <<>>
    /\ cbTarget' = "none"
    /\ UNCHANGED <<xPc, xReq, brokerOrders>>
    /\ UNCHANGED OtherThanOrderManager

ONext ==
    \/ \E req \in Requests : Exec_send_order(req)
    \/ \E outcome \in {"trade_with_id", "trade_without_id", "no_trade", "raises"} :
          Exec_place(outcome)
    \/ Exec_set_status
    \/ Exec_cancel
    \/ \E broker_id \in BrokerIds \cup {ForeignBrokerId}, args \in CallbackArgs :
          Callback_lookup(broker_id, args)
    \/ Callback_update

SpecOrderManager == Init /\ [][ONext]_vars

(***************************************************************************)
(* A flushed batch on its way to the raw log and to the columnar store:     *)
(* IngestionWorker._handle_event and flush, RawWriter._write_batch_sync,    *)
(* ClickHouseWriter._write_batch_sync and flush(force=True).                *)
(***************************************************************************)
\* RawWriter._write_batch_sync: write_event for each event of
\* list(ticks) + list(books), each appended to the file of its partition.
RECURSIVE RawWriteAll(_, _)
RawWriteAll(lines, evs) ==
    IF evs = <<>> THEN lines
    ELSE RawWriteAll([lines EXCEPT ![Head(evs).symbol] = Append(@, Head(evs))], Tail(evs))

RawWriteBatchSync(lines, ticks, books) == RawWriteAll(lines, ticks \o books)

\* _flush_ticks / _flush_books: nothing is sent from an empty buffer; the rows
\* are those of the buffer in its order; a failed insert keeps the buffer.
FlushRows(st, table, ok) ==
    LET buf == IF table = "ticks" THEN st.ticks ELSE st.books
    IN  IF buf = <<>> THEN st
        ELSE LET sent == [st EXCEPT !.inserts =
                             Append(@, [table |-> table, rows |-> buf, ok |-> ok])]
             IN  IF ~ok THEN sent
                 ELSE IF table = "ticks" THEN [sent EXCEPT !.ticks = <<>>]
                      ELSE [sent EXCEPT !.books = <<>>]

\* _handle_event(event): a tick is appended to _ticks_buffer, a book to
\* _books_buffer.
Ingest_handle_event(type, symbol) ==
    /\ pHandled < MaxHandled
    /\ LET e == [id |-> pHandled + 1, type |-> type, symbol |-> symbol]
       IN  /\ pTicks' = IF type = "MD_TICK" THEN Append(pTicks, e) ELSE pTicks
           /\ pBooks' = IF type = "MD_BOOK" THEN Append(pBooks, e) ELSE pBooks
           /\ pEntered' = Append(pEntered, e)
    /\ pHandled' = pHandled + 1
    /\ UNCHANGED <<rawLines, pChTicks, pChBooks, inserts, flushed>>
    /\ UNCHANGED OtherThanBatchPath

\* flush() with something buffered: the buffers are copied and cleared,
\* raw_writer.write_batch and analytical_writer.write_batch get the copies
\* (the columnar writer sends a kind early when it is due or at its
\* threshold), then analytical_writer.flush(force=True).
Ingest_flush ==
    /\ pTicks # <<>> \/ pBooks # <<>>
    /\ rawLines' = RawWriteBatchSync(rawLines, pTicks, pBooks)
    /\ \E earlyTicks, earlyBooks, ok1, ok2, ok3, ok4 \in BOOLEAN :
          LET st0 == [ticks |-> pChTicks \o pTicks, books |-> pChBooks \o pBooks,
                      inserts |-> inserts]
              st1 == IF earlyTicks THEN FlushRows(st0, "ticks", ok1) ELSE st0
              st2 == IF earlyBooks THEN FlushRows(st1, "books", ok2) ELSE st1
              st3 == FlushRows(st2, "ticks", ok3)
              st4 == FlushRows(st3, "books", ok4)
          IN  /\ pChTicks' = st4.ticks
              /\ pChBooks' = st4.books
              /\ inserts' = st4.inserts
    /\ flushed' = Append(flushed, pEntered)
    /\ pTicks' = <<>>
    /\ pBooks' = <<>>
    /\ pEntered' = <<>>
    /\ UNCHANGED pHandled
    /\ UNCHANGED OtherThanBatchPath

PNext ==
    \/ \E type \in EventTypes, symbol \in PartitionSymbols : Ingest_handle_event(type, symbol)
    \/ Ingest_flush

SpecBatchPath == Init /\ [][PNext]_vars

(***************************************************************************)
(* ClickHouseWriter over HTTP: the retry loop of _send_http inside a flush. *)
(***************************************************************************)
RECURSIVE Pow(_, _)
Pow(b, k) == IF k = 0 THEN 1 ELSE b * Pow(b, k - 1)

\* The policies a writer is built with.
RetryPolicies ==
    [max_retries : 0..MaxRetries, base_delay : 1..MaxBaseDelay, max_delay : 1..MaxMaxDelay,
     backoff_factor : 1..MaxBackoffFactor]

\* A wait that is not capped at max_delay.
SleepTimeUncapped(attempt) ==
    retry_policy.base_delay * Pow(retry_policy.backoff_factor, attempt)

\* sleep_time = min(max_delay, base_delay * (backoff_factor ** attempt))
SleepTime(attempt) ==
    Min(retry_policy.max_delay,
        retry_policy.base_delay * Pow(retry_policy.backoff_factor, attempt))

\* ClickHouseWriter(dsn, http_url=..., retry_policy=...)
Http_init ==
    /\ hPc = "new"
    /\ \E policy \in RetryPolicies : retry_policy' = policy
    /\ hPc' = "idle"
    /\ UNCHANGED <<hAttempt, hBuffer, hPosts, hSleeps, hResult>>
    /\ UNCHANGED OtherThanHttp

\* Events are buffered and a flush begins: _flush_ticks / _flush_books builds
\* the rows and _send_http enters its loop with attempt 0.
Http_flush_begin ==
    /\ hPc = "idle"
    /\ hBuffer' = TRUE
    /\ hAttempt' = 0
    /\ hPosts' = <<>>
    /\ hSleeps' = <<>>
    /\ hResult' = "none"
    /\ hPc' = "post"
    /\ UNCHANGED retry_policy
    /\ UNCHANGED OtherThanHttp

\* requests.post(...) and resp.raise_for_status(): on success _send_http returns
\* and the flush clears the buffer; on a RequestException it sleeps and goes
\* round while attempt < max_retries, and otherwise raises, which the flush
\* catches and hands to _handle_failed_batch, the buffer kept.
Http_post(ok) ==
    /\ hPc = "post"
    /\ hPosts' = Append(hPosts, ok)
    /\ IF ok
       THEN /\ hBuffer' = FALSE
            /\ hResult' = "sent"
            /\ hPc' = "idle"
            /\ UNCHANGED <<hAttempt, hSleeps>>
       ELSE IF hAttempt < retry_policy.max_retries
       THEN /\ hSleeps' = Append(hSleeps, SleepTime(hAttempt))
            /\ hPc' = "sleep"
            /\ UNCHANGED <<hAttempt, hBuffer, hResult>>
       ELSE /\ hResult' = "failed"
            /\ hPc' = "idle"
            /\ UNCHANGED <<hAttempt, hBuffer, hSleeps>>
    /\ UNCHANGED retry_policy
    /\ UNCHANGED OtherThanHttp

\* time.sleep(sleep_time) returns and the loop takes the next attempt.
Http_sleep_over ==
    /\ hPc = "sleep"
    /\ hAttempt' = hAttempt + 1
    /\ hPc' = "post"
    /\ UNCHANGED <<retry_policy, hBuffer, hPosts, hSleeps, hResult>>
    /\ UNCHANGED OtherThanHttp

HNext ==
    \/ Http_init
    \/ Http_flush_begin
    \/ \E ok \in BOOLEAN : Http_post(ok)
    \/ Http_sleep_over

SpecHttp == Init /\ [][HNext]_vars

(***************************************************************************)
(* Universe sharding: get_shard_indices for each worker of a deployment.   *)
(***************************************************************************)
\* A split that gives every shard the base size and leaves the remainder out.
GetShardIndicesBaseOnly(n, shard_id, shards) ==
    LET base == n \div shards
    IN  [start |-> shard_id * base, end |-> Min(shard_id * base + base, n)]

\* get_shard_indices(total_items, ShardConfig(shard_id, total_shards))
get_shard_indices(n, shard_id, shards) ==
    IF n <= 0 THEN [start |-> 0, end |-> 0]
    ELSE LET base == n \div shards
             remainder == n % shards
             start == IF shard_id < remainder THEN shard_id * (base + 1)
                      ELSE shard_id * base + remainder
             end == IF shard_id < remainder THEN start + (base + 1) ELSE start + base
         IN  [start |-> start, end |-> Min(end, n)]

\* A deployment: a universe of n items and TOTAL_SHARDS = shards workers.
Shard_configure ==
    /\ total_shards = 0
    /\ \E n \in 0..MaxItems : total_items' = n
    /\ \E shards \in 1..MaxShards : total_shards' = shards
    /\ UNCHANGED shardSlices
    /\ UNCHANGED OtherThanSharding

\* The next worker (SHARD_ID = the number of workers asked so far) takes its slice.
Shard_get_indices ==
    /\ total_shards > 0
    /\ Len(shardSlices) < total_shards
    /\ shardSlices' = Append(shardSlices,
                             get_shard_indices(total_items, Len(shardSlices), total_shards))
    /\ UNCHANGED <<total_items, total_shards>>
    /\ UNCHANGED OtherThanSharding

ShNext == Shard_configure \/ Shard_get_indices

SpecSharding == Init /\ [][ShNext]_vars

(***************************************************************************)
(* SBEDecoder: the offset of a decoder over a buffer of dLimit bytes.  The  *)
(* bytes themselves matter only where a group header is read: its two      *)
(* fields are whatever the buffer holds there.                             *)
(***************************************************************************)
SBE_HEADER_SIZE == 8
SBE_GROUP_HEADER_SIZE == 4
DECIMAL64_SIZE == 9

\* _check_bounds(size) raises BufferUnderflow.
Underflow(size) == dOffset + size > dLimit

\* SBEDecoder(buffer): offset 0, limit len(buffer).
Decoder_init ==
    /\ dPc = "new"
    /\ \E n \in 0..MaxBuffer : dLimit' = n
    /\ dOffset' = 0
    /\ dPc' = "ready"
    /\ UNCHANGED <<dBlockSize, dGroupLeft, dLast>>
    /\ UNCHANGED OtherThanDecoder

\* self._check_bounds(size); unpack; self._offset += size
ReadFixed(op, size) ==
    /\ dPc = "ready"
    /\ IF Underflow(size)
       THEN /\ dLast' = [op |-> op, before |-> dOffset, size |-> size, outcome |-> "underflow"]
            /\ UNCHANGED dOffset
       ELSE /\ dLast' = [op |-> op, before |-> dOffset, size |-> size, outcome |-> "ok"]
            /\ dOffset' = dOffset + size
    /\ UNCHANGED <<dPc, dLimit, dBlockSize, dGroupLeft>>
    /\ UNCHANGED OtherThanDecoder

Decoder_decode_header == ReadFixed("decode_header", SBE_HEADER_SIZE)

Decoder_read_u8 == ReadFixed("read_u8", 1)

Decoder_read_u16 == ReadFixed("read_u16", 2)

Decoder_read_decimal64 == ReadFixed("read_decimal64", DECIMAL64_SIZE)

Decoder_skip == \E bytes_count \in 0..MaxSkip : ReadFixed("skip", bytes_count)

\* groups(), body short: the group header has been consumed when the check of
\* total_group_size raises.
GroupsBodyUnderflow(before) ==
    /\ dOffset' = before + SBE_GROUP_HEADER_SIZE
    /\ dLast' = [op |-> "groups", before |-> before, size |-> 0, outcome |-> "underflow"]

\* groups(), up to its first yield or its end: the first next() on the generator.
Decoder_groups ==
    /\ dPc = "ready"
    /\ IF Underflow(SBE_GROUP_HEADER_SIZE)
       THEN /\ dLast' = [op |-> "groups", before |-> dOffset, size |-> 0,
                         outcome |-> "underflow"]
            /\ UNCHANGED <<dOffset, dPc, dBlockSize, dGroupLeft>>
       ELSE \E block_size \in 0..MaxBlockSize, num_in_group \in 0..MaxNumInGroup :
               LET total_group_size == block_size * num_in_group
               IN  IF dOffset + SBE_GROUP_HEADER_SIZE + total_group_size > dLimit
                   THEN /\ GroupsBodyUnderflow(dOffset)
                        /\ UNCHANGED <<dPc, dBlockSize, dGroupLeft>>
                   ELSE /\ dOffset' = dOffset + SBE_GROUP_HEADER_SIZE
                        /\ dBlockSize' = block_size
                        /\ dGroupLeft' = num_in_group
                        /\ dPc' = IF num_in_group = 0 THEN "ready" ELSE "group"
                        /\ dLast' = [op |-> "groups", before |-> dOffset,
                                     size |-> SBE_GROUP_HEADER_SIZE + total_group_size,
                                     outcome |-> IF num_in_group = 0 THEN "ok" ELSE "running"]
    /\ UNCHANGED dLimit
    /\ UNCHANGED OtherThanDecoder

\* The caller is done with an entry: self._offset += block_size, then the next
\* entry is yielded or the generator ends.
Decoder_groups_next ==
    /\ dPc = "group"
    /\ dOffset' = dOffset + dBlockSize
    /\ dGroupLeft' = dGroupLeft - 1
    /\ dPc' = IF dGroupLeft = 1 THEN "ready" ELSE "group"
    /\ dLast' = [dLast EXCEPT !.outcome = IF dGroupLeft = 1 THEN "ok" ELSE "running"]
    /\ UNCHANGED <<dLimit, dBlockSize>>
    /\ UNCHANGED OtherThanDecoder

DNext ==
    \/ Decoder_init
    \/ Decoder_decode_header
    \/ Decoder_read_u8
    \/ Decoder_read_u16
    \/ Decoder_read_decimal64
    \/ Decoder_skip
    \/ Decoder_groups
    \/ Decoder_groups_next

SpecDecoder == Init /\ [][DNext]_vars

(***************************************************************************)
(* Properties of the queue bus.                                            *)
(***************************************************************************)
\* s is the only subscriber of its topic.
SoleSubscriber(s) ==
    /\ subPc[s] # "unsub"
    /\ \A o \in Subscribers \ {s} : subPc[o] = "unsub" \/ subTopic[o] # subTopic[s]

\* The subscribers of topic t.
SubscribersOf(t) == {s \in Subscribers : subPc[s] # "unsub" /\ subTopic[s] = t}

RECURSIVE ObservedCount(_)
ObservedCount(S) ==
    IF S = {} THEN 0
    ELSE LET s == CHOOSE x \in S : TRUE
         IN  Len(observed[s]) + ObservedCount(S \ {s})

\* C1: a single subscriber of a topic whose published sequence E is no longer
\* than max_queue_size observes exactly E in publish order: what it has been
\* yielded, followed by what still waits in the queue, is E (nothing lost,
\* nothing twice, nothing out of order).
C1_QueueBusFIFO ==
    \A s \in Subscribers :
        (SoleSubscriber(s) /\ Len(PublishedOn(subTopic[s])) <= max_queue_size)
            => observed[s] \o queues[subTopic[s]] = PublishedOn(subTopic[s])

\* C1 witness: a sole subscriber has been yielded a whole sequence of
\* max_queue_size events.
C1_Witness ==
    \E s \in Subscribers :
        /\ SoleSubscriber(s)
        /\ Len(observed[s]) = max_queue_size
        /\ observed[s] = PublishedOn(subTopic[s])

\* C2: every queue holds at most max_queue_size events, and as long as no
\* event was published to a topic after its first pop, the events popped so
\* far followed by the queue are the last max_queue_size events published to
\* the topic, in order (before any pop: the queue is that tail).
C2_DropOldest ==
    \A t \in Topics :
        /\ Len(queues[t]) <= max_queue_size
        /\ pubAtFirstPop[t] \in {0, Len(PublishedOn(t))}
             => popped[t] \o queues[t] = LastN(PublishedOn(t), max_queue_size)

\* C2 witness: more than max_queue_size events were published to a topic with
\* no consumption, and the drain that followed has emptied the queue.
C2_Witness ==
    \E t \in Topics :
        /\ Len(PublishedOn(t)) > max_queue_size
        /\ pubAtFirstPop[t] = Len(PublishedOn(t))
        /\ queues[t] = <<>>
        /\ Len(popped[t]) = max_queue_size

\* C4: the subscribers of one topic share its queue: no event is yielded to
\* two of them or twice to one, every event published to the topic is
\* yielded, still queued or was dropped by backpressure, and with nothing
\* dropped the yielded and queued events are exactly the published ones.
C4_CompetingConsumers ==
    \A t \in Topics :
        LET cs == SubscribersOf(t)
        IN  /\ \A a, b \in cs :
                    a # b => Range(observed[a]) \cap Range(observed[b]) = {}
            /\ \A a \in cs : NoDuplicates(observed[a])
            /\ ObservedCount(cs) + Len(queues[t]) + dropped[t] = Len(PublishedOn(t))
            /\ dropped[t] = 0 =>
                    UNION {Range(observed[a]) : a \in cs} \cup Range(queues[t])
                        = Range(PublishedOn(t))

\* C4 witness: two subscribers of one topic have each been yielded an event.
C4_Witness ==
    \E a, b \in Subscribers :
        /\ a # b
        /\ subPc[a] # "unsub" /\ subPc[b] # "unsub"
        /\ subTopic[a] = subTopic[b]
        /\ observed[a] # <<>> /\ observed[b] # <<>>

\* C6: a next() of a sequence subscribed with a timeout is never pending
\* longer than the timeout (it yields an event or the heartbeat-null by then,
\* whatever is published to other topics or taken by competing consumers),
\* and a sequence subscribed without a timeout never yields the
\* heartbeat-null.
C6_HeartbeatOnTimeout ==
    \A s \in Subscribers :
        /\ (subPc[s] = "waiting" /\ subHasTimeout[s]) => subElapsed[s] <= Timeout
        /\ ~subHasTimeout[s] => ~yieldedNone[s]

(***************************************************************************)
(* Properties of the broadcast bus.                                        *)
(***************************************************************************)

\* The events of publisher p that subscriber s was handed: yielded or still queued.
DeliveredFrom(s, p) == SelectSeq(bObserved[s] \o bQueue[s], LAMBDA e : e.by = p)

\* The log entries of publisher p whose put on the queue of s is behind it.
LoggedFor(s, p) ==
    SelectSeq(bLog, LAMBDA l : /\ l.ev.by = p
                               /\ s \in l.subs
                               /\ [ev |-> l.ev, q |-> s] \notin Range(pubWork[p]))

\* The events of publisher p that were published for s, in publish order.
ExpectedFrom(s, p) == [i \in 1..Len(LoggedFor(s, p)) |-> LoggedFor(s, p)[i].ev]

\* C3: broadcast independence. A subscriber whose own queue was never found
\* full is handed every event published for it, in each publisher's publish
\* order, whatever the other subscribers consume or fail to consume.
C3_BroadcastIndependence ==
    \A s \in BSubscribers :
        (Live(s) /\ ~bFullSeen[s]) =>
            \A p \in Publishers : DeliveredFrom(s, p) = ExpectedFrom(s, p)

\* C5: publish and publish_many always complete normally: no call of any
\* publisher ends with an exception, full target queue and concurrent
\* publishers included.
C5_PublishCompletes == \A p \in Publishers : ~pubRaised[p]

(***************************************************************************)
(* Properties of the ingestion worker.                                     *)
(***************************************************************************)

\* C7: after stop() run_forever terminates (with the final flush done and
\* both task queues drained).
C7_StopTerminates == stopEvent ~> (wpc = "done")

\* The ticks (k = 1) or books (k = 2) of a sequence of batches, in order.
RECURSIVE BatchEvents(_, _)
BatchEvents(bs, k) == IF bs = <<>> THEN <<>> ELSE Head(bs)[k] \o BatchEvents(Tail(bs), k)

OfType(es, ty) == SelectSeq(es, LAMBDA e : e.type = ty)

\* The snapshot a running flush() has still to give to writer w.
InHand(w) == IF w \in fPending THEN <<fSnap>> ELSE <<>>

\* Every buffered event is in exactly one place: a batch given to the writer,
\* the snapshot on its way to it, or the worker's buffer.
EachEventOnce(handed, w) ==
    /\ BatchEvents(handed \o InHand(w), 1) \o ticks_buffer = OfType(buffered, "MD_TICK")
    /\ BatchEvents(handed \o InHand(w), 2) \o books_buffer = OfType(buffered, "MD_BOOK")

\* C8: every flush gives the same (ticks, books) snapshot to both writers and
\* clears both buffers; each buffered event is in exactly one batch given to
\* each writer, and the two writers are given the same sequence of batches.
C8_FanOut ==
    /\ EachEventOnce(rawHanded, "raw")
    /\ EachEventOnce(chHanded, "analytical")
    /\ rawHanded \o InHand("raw") = chHanded \o InHand("analytical")
    /\ wpc = "flush_wait" => ticks_buffer = <<>> /\ books_buffer = <<>>
    /\ wpc = "done" => /\ ticks_buffer = <<>> /\ books_buffer = <<>>
                       /\ BatchEvents(rawHanded, 1) \o BatchEvents(rawHanded, 2)
                            = OfType(buffered, "MD_TICK") \o OfType(buffered, "MD_BOOK")

\* A whole run in which several flushes gave batches of ticks and books to
\* both writers.
C8_Witness ==
    /\ wpc = "done"
    /\ Len(buffered) = MaxEvents
    /\ Len(rawHanded) >= 2
    /\ rawHanded = chHanded
    /\ \E i \in 1..Len(rawHanded) : rawHanded[i][1] # <<>> /\ rawHanded[i][2] # <<>>

(***************************************************************************)
(* Properties of the columnar writer.                                      *)
(***************************************************************************)

\* The insert attempts of one kind, in order.
AttemptsOf(kind) == SelectSeq(attempts, LAMBDA a : a.kind = kind)

Ids(es) == {es[i].id : i \in 1..Len(es)}

\* The events of the batches of a sequence of attempts, in order.
RECURSIVE AttemptedEvents(_)
AttemptedEvents(as) ==
    IF as = <<>> THEN <<>> ELSE Head(as).batch \o AttemptedEvents(Tail(as))

\* C9: a failed insert leaves the buffer of its kind as it was, so the next
\* flush of the kind attempts the same events again (with what arrived
\* since); only a successful insert takes events out of the buffer.
C9_KeepsBufferOnFailure ==
    /\ \A kind \in Kinds :
         LET as == AttemptsOf(kind)
             buf == IF kind = "ticks" THEN tick_buffer ELSE book_buffer
         IN  /\ \A i \in 1..Len(as) :
                   LET next == IF i < Len(as) THEN as[i + 1].batch ELSE buf
                   IN  IF as[i].ok THEN Ids(as[i].batch) \cap Ids(next) = {}
                       ELSE IsPrefix(as[i].batch, next)
             /\ NoDuplicates(buf)
    /\ Ids(tick_buffer) \cup Ids(book_buffer)
          \cup Ids(AttemptedEvents(SelectSeq(attempts, LAMBDA a : a.ok))) = 1..written

\* A batch whose insert failed was attempted again, unchanged, and went through.
C9_Witness ==
    \E kind \in Kinds :
        \E i \in 1..Len(AttemptsOf(kind)) - 1 :
            /\ ~AttemptsOf(kind)[i].ok
            /\ AttemptsOf(kind)[i + 1].ok
            /\ AttemptsOf(kind)[i + 1].batch = AttemptsOf(kind)[i].batch
            /\ Len(AttemptsOf(kind)[i].batch) >= 2

\* The lines the failed flushes of a kind put in the file of a day, were every
\* event of a failed batch written (all = TRUE) or only those that serialize.
FallbackLines(kind, day, all) ==
    LET evs == SelectSeq(AttemptedEvents(SelectSeq(attempts,
                            LAMBDA a : a.kind = kind /\ ~a.ok)),
                         LAMBDA e : TradingDay(e.ts_ns) = day /\ (all \/ e.ser))
    IN  [i \in 1..Len(evs) |-> Dumps(evs[i])]

\* The failure summaries of the failed flushes in which some event serialized.
RECURSIVE Summaries(_)
Summaries(as) ==
    IF as = <<>> THEN <<>>
    ELSE LET a == Head(as)
             n == Len(SelectSeq(a.batch, LAMBDA e : e.ser))
         IN  (IF ~a.ok /\ n > 0 THEN <<[kind |-> a.kind, count |-> n]>> ELSE <<>>)
                \o Summaries(Tail(as))

InsertCount(id) ==
    Cardinality({i \in 1..Len(attempts) : attempts[i].ok /\ id \in Ids(attempts[i].batch)})

\* C11: an event given to write_batch is in the buffer of its kind and was
\* never inserted, or it left the buffer and was inserted by exactly one
\* successful execute, however many inserts failed before.
C11_ExactlyOnceInsert ==
    \A id \in 1..written :
        InsertCount(id) = IF id \in Ids(tick_buffer) \cup Ids(book_buffer) THEN 0 ELSE 1

\* The client failed twice on an event and then recovered, and the event of
\* the other kind went in with no failure.
C11_Witness ==
    /\ tick_buffer = <<>> /\ book_buffer = <<>>
    /\ written = MaxWritten
    /\ \E kind \in Kinds :
          /\ Len(AttemptsOf(kind)) >= 3
          /\ ~AttemptsOf(kind)[1].ok /\ ~AttemptsOf(kind)[2].ok /\ AttemptsOf(kind)[3].ok

(***************************************************************************)
(* Properties of the restore tool.                                         *)
(***************************************************************************)

\* The rows the store holds: those of the writer's successful inserts, and
\* those the restore tool inserted.
StoreRows ==
    RowsOf(AttemptedEvents(SelectSeq(attempts, LAMBDA a : a.ok))) \o restored

CountIn(rows, r) == Cardinality({i \in 1..Len(rows) : rows[i] = r})

\* C12: once the restore tool has replayed the fallback files, every event of
\* a batch whose flush failed and fell back has its row in the store exactly
\* once, as after a direct successful write of the batch.
C12_ReplayRoundTrip ==
    restoreRuns = 1 =>
        \A i \in 1..restoredUpTo :
            ~attempts[i].ok =>
                \A k \in 1..Len(attempts[i].batch) :
                    CountIn(StoreRows, RowOf(attempts[i].batch[k])) = 1

(***************************************************************************)
(* Properties of the raw writer.                                           *)
(***************************************************************************)

\* C13: no raw-log file holds more than max_events_per_file events or more
\* than max_file_size_bytes bytes.
C13_RotationBound ==
    \A i \in 1..Len(rawFiles) :
        /\ rawFiles[i].events <= max_events_per_file
        /\ rawFiles[i].bytes <= max_file_size_bytes

(***************************************************************************)
(* Properties of the subscription manager.                                 *)
(***************************************************************************)

\* How many subscriptions of one quote type the broker holds for a key, over all sessions.
ActiveCount(key, qt) ==
    LET RECURSIVE Sum(_)
        Sum(x) == IF x >= MaxPool THEN 0 ELSE active[x][<<key, qt>>] + Sum(x + 1)
    IN  Sum(0)

\* The keys with a subscription on session x.
ContractsOn(x) == {k \in Keys : \E qt \in QuoteTypes : active[x][<<k, qt>>] > 0}

WorkersIdle == \A i \in Indices : subWorkerPc[i] = "idle"

\* C14: as long as no broker call has raised and nothing has been
\* unsubscribed, no target has its tick or
\* its book subscription issued twice, and once subscribe_universe has
\* returned every tracked target has each of them exactly once.
C14_SubscribeExactlyOnce ==
    (unsubLog = <<>> /\ ~brokerRaised) =>
        \A k \in Keys : \A qt \in QuoteTypes :
            /\ ActiveCount(k, qt) <= 1
            /\ (WorkersIdle /\ subscribed[k] # -1) => ActiveCount(k, qt) = 1

\* C15: no session ever holds subscriptions for more than max_subscriptions contracts.
C15_PerSessionCap ==
    \A x \in Indices : Cardinality(ContractsOn(x)) <= max_subscriptions

\* C16: with no broker call raised, after unsubscribe_all the broker holds no
\* subscription any more (each one issued was unsubscribed on its session),
\* and an unsubscribe_all that follows another one issues no call.
C16_Teardown ==
    /\ (unsubLog # <<>> /\ universeCalls > 0 /\ WorkersIdle /\ \A k \in Keys : subscribed[k] = -1
            /\ ~brokerRaised /\ \A n \in 1..Len(unsubLog) : ~unsubLog[n].raised)
          => \A x \in Indices : ContractsOn(x) = {}
    /\ \A n \in 1..Len(unsubLog) : unsubLog[n].calls = 2 * unsubLog[n].tracked \/ unsubLog[n].raised
    /\ \A n \in 2..Len(unsubLog) : unsubLog[n].tracked = 0 => unsubLog[n].calls = 0

(***************************************************************************)
(* Properties of the ring buffer.                                          *)
(***************************************************************************)
\* The laps a slot can be ahead of a cursor within a run.
Laps == 1..MaxCursor

\* Every published cursor N finds in its slot seq_num N or N + k*capacity.
PublishedSlotsHold ==
    \A n \in 1..write_cursor :
        \/ slots[GetSlotIndex(n)].seq_num = n
        \/ \E k \in Laps : slots[GetSlotIndex(n)].seq_num = n + k * SLOT_COUNT

\* C17: with a producer that writes the slot and then publishes, the slot of
\* every published cursor N holds seq_num N or N + k*capacity, and a consumer
\* asking for N through read_at or latest never receives the payload of another
\* write as if it were N.
C17_RingProtocol ==
    /\ PublishedSlotsHold
    /\ \A h \in {rHanded[i] : i \in DOMAIN rHanded} :
          h.method \in {"read_at", "latest"} => h.payload = h.cursor

\* C18: read_at(cursor) for cursor > 0 returns the row iff the slot's seq_num
\* equals the cursor; otherwise it raises the integrity error when the seq_num is
\* 0 or below the cursor, and the stale reference error when the seq_num is
\* cursor + k*capacity for some k >= 1.
C18_ReadAtErrors ==
    /\ rpc = "holding" => rSeen = rCursor
    /\ \A e \in {rRaised[i] : i \in DOMAIN rRaised} :
          e.cursor > 0 =>
             /\ e.seq_num # e.cursor
             /\ (e.seq_num = 0 \/ e.seq_num < e.cursor) => e.error = "DataIntegrityError"
             /\ (\E k \in Laps : e.seq_num = e.cursor + k * SLOT_COUNT)
                    => e.error = "StaleReferenceError"

\* C19: every payload the reader hands over (latest, latest_bytes, read_at) comes
\* from a slot whose seq_num equalled the cursor of the call when the payload
\* was taken, under every interleaving with the producer.
C19_AuthoritativeOnly ==
    \A h \in {rHanded[i] : i \in DOMAIN rHanded} : h.seq_num = h.cursor

(***************************************************************************)
(* Properties of the strategy.                                             *)
(***************************************************************************)
\* C20: a call of on_tick that finds the order state CHASING or IDLE returns no
\* OrderRequest, whatever the top of book and the OFI input, and leaves state,
\* chase_count and order_price as they were.
C20_StrategyGuard ==
    \A t \in {lastTick[i] : i \in DOMAIN lastTick} :
        t.state \in {"CHASING", "IDLE"} =>
            /\ t.requests = <<>>
            /\ state = t.state
            /\ chase_count = t.chase_count
            /\ order_price = t.order_price

\* on_tick has just run on an engine that was IDLE, the last tick it processed
\* having a bid above the order price.
C20_Witness ==
    /\ lastTick # <<>>
    /\ lastTick[1].state = "IDLE"
    /\ prev_state # <<>>
    /\ prev_state[1].bid_price > order_price

\* The ordered rules of the strategy for an engine in state WORKING: what a tick
\* with bid market_bid and signal ofi must give, from the count and the price the
\* tick found.  A request is named by its action, price and reason.
RuleOutcome(count, price, market_bid, ofi) ==
    LET d == market_bid - price
        thr == config.chase_threshold
        nothing == [state |-> "WORKING", chase_count |-> count, order_price |-> price,
                    requests |-> <<>>]
    IN  IF count >= config.max_chase_round /\ d > 0
        THEN [nothing EXCEPT !.state = "IDLE",
                             !.requests = <<[action |-> "CANCEL", price |-> <<>>]>>]
        ELSE IF d <= 0 THEN nothing
        ELSE IF ~(d > thr) /\ ~(d >= thr /\ ofi > 0) THEN nothing
        ELSE IF ofi < 0 /\ d > thr THEN nothing
        ELSE [state |-> "CHASING", chase_count |-> count + 1, order_price |-> market_bid,
              requests |-> <<[action |-> "CANCEL_REPLACE", price |-> <<market_bid>>,
                              reason |-> IF d >= thr /\ ofi > 0 THEN "AlphaDriven"
                                         ELSE "PriceDrift"]>>]

\* What the last on_tick gave, in the shape of RuleOutcome.
TickOutcome(t) ==
    [state |-> state, chase_count |-> chase_count, order_price |-> order_price,
     requests |-> [i \in DOMAIN t.requests |->
                     IF t.requests[i].action = "CANCEL"
                     THEN [action |-> "CANCEL", price |-> t.requests[i].price]
                     ELSE [action |-> t.requests[i].action, price |-> t.requests[i].price,
                           reason |-> t.requests[i].reason]]]

\* C21: a call of on_tick that finds the order state WORKING returns at most one
\* request and gives exactly what the ordered rules give for d = market_bid -
\* order_price and the OFI signal: CANCEL and IDLE, nothing, or CANCEL_REPLACE at
\* market_bid with chase_count + 1, state CHASING and the reason of the rules.
C21_DecisionRules ==
    \A t \in {lastTick[i] : i \in DOMAIN lastTick} :
        t.state = "WORKING" =>
            /\ Len(t.requests) <= 1
            /\ TickOutcome(t) = RuleOutcome(t.chase_count, t.order_price,
                                            prev_state[1].bid_price, t.ofi)

\* on_tick has just chased, on the alpha rule at the threshold.
C21_Witness ==
    /\ lastTick # <<>>
    /\ lastTick[1].state = "WORKING"
    /\ state = "CHASING"
    /\ lastTick[1].requests # <<>>
    /\ lastTick[1].requests[1].reason = "AlphaDriven"
    /\ prev_state[1].bid_price - lastTick[1].order_price = config.chase_threshold

(***************************************************************************)
(* Properties of the risk gate.                                            *)
(***************************************************************************)
\* The entries of the record of the current or last send.
SendEntries == {sendLog[i] : i \in DOMAIN sendLog}

\* C22: while the kill switch is active, every non-CANCEL order of a send is
\* rejected with reason KillSwitch and does not reach the inner adapter, and every
\* CANCEL order passes to the inner adapter, whatever the other guards hold.
C22_KillSwitch ==
    (gwPc = "idle" /\ kill_active) =>
        \A e \in SendEntries :
            IF e.order.action = "CANCEL"
            THEN /\ e.reason = ""
                 /\ \E i \in DOMAIN innerReceived : innerReceived[i] = e.order
            ELSE /\ e.reason = "KillSwitch"
                 /\ \A i \in DOMAIN innerReceived : innerReceived[i] # e.order

\* What each guard demands of an order, as the gate is described: the kill switch
\* lets only CANCEL through, the fat-finger guard bounds the price deviation and
\* the quantity, the position guard bounds the projected position, the rate
\* limiter asks for one token.
ViolatesKillSwitch(e) == kill_active /\ e.order.action # "CANCEL"

ViolatesFatFinger(e) ==
    /\ e.order.action # "CANCEL"
    /\ \/ e.order.quantity > max_order_qty
       \/ /\ e.order.price # <<>>
          /\ Abs(e.order.price[1] - ref_price) * 100 > price_deviation_pct * ref_price

ViolatesPosition(e) ==
    /\ e.order.action # "CANCEL"
    /\ Abs(position + (IF e.order.side = "SELL" THEN 0 - e.order.quantity
                       ELSE e.order.quantity)) > max_position

FirstViolated(e) ==
    IF ViolatesKillSwitch(e) THEN "kill switch"
    ELSE IF ViolatesFatFinger(e) THEN "fat finger"
    ELSE IF ViolatesPosition(e) THEN "position"
    ELSE IF e.tokens < 1 THEN "rate limit"
    ELSE "none"

GuardOf(reason) ==
    IF reason = "KillSwitch" THEN "kill switch"
    ELSE IF reason \in {"PriceDeviation", "MaxOrderQty"} THEN "fat finger"
    ELSE IF reason = "PositionLimit" THEN "position"
    ELSE IF reason = "RateLimit" THEN "rate limit"
    ELSE "none"

\* C23: the reason of every rejection is that of the first guard, in the order
\* kill switch, fat-finger, position, rate limit, that the order violates.
C23_GuardOrder ==
    \A e \in SendEntries : e.reason # "" => GuardOf(e.reason) = FirstViolated(e)

\* The same with each guard's own verdict in place of what it is described to demand.
GuardOrderByVerdict ==
    \A e \in SendEntries :
        e.reason = (IF KillSwitchCheck(e.order) # "" THEN KillSwitchCheck(e.order)
                    ELSE IF FatFingerCheck(e.order) # "" THEN FatFingerCheck(e.order)
                    ELSE IF PositionCheck(e.order) # "" THEN PositionCheck(e.order)
                    ELSE IF e.tokens < 1 THEN "RateLimit" ELSE "")

PassedEntry(e) == e.reason = ""
RejectedEntry(e) == e.reason # ""
OrdersOf(entries) == [i \in DOMAIN entries |-> entries[i].order]
EventsOf(entries) ==
    [i \in DOMAIN entries |->
        [type |-> "RiskReject", reason |-> entries[i].reason, order |-> entries[i].order]]

C25_FatFingerQuantity ==
    \A e \in SendEntries :
        (e.order.action # "CANCEL" /\ e.order.quantity > max_order_qty) => e.reason # ""

(***************************************************************************)
(* Properties of the execution adapter.                                    *)
(***************************************************************************)
\* The statuses of the lifecycle; the adapter's own SUBMITTED_ASYNC and FAILED
\* are not among them, and a step to or from one of them is not judged.
LifecycleStatuses == {"PENDING", "SUBMITTED", "PARTIAL", "FILLED", "CANCELLED", "REJECTED"}

\* A step keeps the order of internal id i on the lifecycle: its status does not
\* move back, and a final status does not change.
MovesForward(i) ==
    (/\ orders[i] # <<>>
     /\ orders[i][1].status \in LifecycleStatuses
     /\ orders'[i][1].status \in LifecycleStatuses) =>
        /\ Rank(orders'[i][1].status) >= Rank(orders[i][1].status)
        /\ Rank(orders[i][1].status) = 3 => orders'[i][1].status = orders[i][1].status

\* C26: an order's status only moves forward along PENDING, SUBMITTED, PARTIAL,
\* then FILLED or CANCELLED or REJECTED: no step of send_order or of a broker
\* callback moves an order out of a final status or back to an earlier one.
C26_OrderLifecycle == [][\A i \in InternalIds : MovesForward(i)]_vars

\* C27: when update_from_callback has returned for an order whose broker id the
\* adapter had not learnt from place_order, the order's status, filled quantity
\* and price are those of the callback; and a callback for a broker id that
\* belongs to no order of the adapter has changed no order.
C27_LateCompletion ==
    lastCb # <<>> =>
        LET cb == lastCb[1]
        IN  /\ cb.late =>
                /\ orders[cb.owner][1].status = cb.status
                /\ orders[cb.owner][1].filled_qty = cb.filled_qty
                /\ orders[cb.owner][1].avg_price = cb.price
            /\ cb.owner = "none" => orders = cb.before

\* The second half of C27 alone: a callback for an unknown broker id changes no
\* order.
UnknownBrokerIdChangesNothing ==
    (lastCb # <<>> /\ lastCb[1].owner = "none") => orders = lastCb[1].before

\* A step of update_from_callback on the broker-callback thread, and a step of
\* send_order on the execution thread.
CallbackStep ==
    \/ \E broker_id \in BrokerIds \cup {ForeignBrokerId}, args \in CallbackArgs :
          Callback_lookup(broker_id, args)
    \/ Callback_update

ExecStep ==
    \/ \E req \in Requests : Exec_send_order(req)
    \/ \E outcome \in {"trade_with_id", "trade_without_id", "no_trade", "raises"} :
          Exec_place(outcome)
    \/ Exec_set_status
    \/ Exec_cancel

\* C28: the order-state map is read and changed under mutual exclusion: while
\* send_order is between its two writes of one order (broker id written, status
\* not yet) no step of update_from_callback is taken, and while
\* update_from_callback is between finding its target and updating it no step
\* of send_order is taken.
C28_MapExclusion ==
    [][/\ xPc = "set_status" => ~CallbackStep
       /\ cbPc = "update" => ~ExecStep]_vars

(***************************************************************************)
(* The drop metric of the bus.                                             *)
(***************************************************************************)
\* The drop counter of topic t's queue as the program keeps it.  publish and
\* publish_many call logger.warning when they drop and count nothing, and
\* event_bus.py defines and imports no metric (the program's one drop counter,
\* ingestion_queue_dropped_total, is labelled by writer and is touched only by
\* the writers' _submit_async): the counter of a bus queue never leaves 0.
BusDropCounter(t) == 0

\* C29: every event dropped by bus backpressure increments a drop counter: once
\* more than max_queue_size events were published to a topic and none was
\* consumed, the counter of that queue stands at the number of events published
\* less max_queue_size.
C29_DropMetric ==
    \A t \in Topics :
        (popped[t] = <<>> /\ Len(PublishedOn(t)) > max_queue_size) =>
            BusDropCounter(t) = Len(PublishedOn(t)) - max_queue_size

\* What publish does keep: with nothing consumed the queue has lost exactly the
\* events beyond max_queue_size.
DroppedBeyondCapacity ==
    \A t \in Topics :
        (popped[t] = <<>> /\ Len(PublishedOn(t)) > max_queue_size) =>
            dropped[t] = Len(PublishedOn(t)) - max_queue_size

(***************************************************************************)
(* Properties of the flushed batch.                                        *)
(***************************************************************************)
\* Where event e stands in the sequence s that holds it.
PositionIn(s, e) == CHOOSE i \in 1..Len(s) : s[i] = e

Holds(s, e) == \E i \in 1..Len(s) : s[i] = e

\* Of two events that s holds, a stands before b.
WrittenBefore(s, a, b) == (Holds(s, a) /\ Holds(s, b)) => PositionIn(s, a) < PositionIn(s, b)

\* C30: for any two events of one flushed batch, the one that entered the batch
\* first stands first in the partition file both were written to, and in every
\* insert that carries both.
C30_InsertionOrder ==
    \A k \in 1..Len(flushed) :
        \A i, j \in 1..Len(flushed[k]) :
            i < j =>
                /\ \A sym \in PartitionSymbols :
                      WrittenBefore(rawLines[sym], flushed[k][i], flushed[k][j])
                /\ \A n \in 1..Len(inserts) :
                      WrittenBefore(inserts[n].rows, flushed[k][i], flushed[k][j])

\* The same for two events of one kind, ticks or books.
InsertionOrderWithinKind ==
    \A k \in 1..Len(flushed) :
        \A i, j \in 1..Len(flushed[k]) :
            (i < j /\ flushed[k][i].type = flushed[k][j].type) =>
                /\ \A sym \in PartitionSymbols :
                      WrittenBefore(rawLines[sym], flushed[k][i], flushed[k][j])
                /\ \A n \in 1..Len(inserts) :
                      WrittenBefore(inserts[n].rows, flushed[k][i], flushed[k][j])

\* The columnar half alone: every insert carries its events in entry order.
InsertsInEntryOrder ==
    \A k \in 1..Len(flushed) :
        \A i, j \in 1..Len(flushed[k]) :
            i < j => \A n \in 1..Len(inserts) :
                        WrittenBefore(inserts[n].rows, flushed[k][i], flushed[k][j])

(***************************************************************************)
(* Properties of the ingestion worker's buffers.                           *)
(***************************************************************************)
\* C31: each time the worker has handled an event and checked the flush
\* triggers, its two buffers together hold fewer than max_buffer_events events.
C31_BufferBound ==
    wpc = "check" => Len(ticks_buffer) + Len(books_buffer) < max_buffer_events

\* C31 witness: the worker stands after the flush check with empty buffers, the
\* batch it has just handed on having reached max_buffer_events.
C31_Witness ==
    /\ wpc = "check"
    /\ ticks_buffer = <<>> /\ books_buffer = <<>>
    /\ rawHanded # <<>>
    /\ Len(rawHanded[Len(rawHanded)][1]) + Len(rawHanded[Len(rawHanded)][2])
         = max_buffer_events

\* The events of the batches given to one writer.
HandedCount(handed) == Len(BatchEvents(handed, 1)) + Len(BatchEvents(handed, 2))

\* Events are buffered that the writers have not been given.
NotYetHanded ==
    \/ HandedCount(rawHanded) < Len(buffered)
    \/ HandedCount(chHanded) < Len(buffered)

\* C32: in a quiet period the heartbeat-null ends the inner loop and the flush
\* check hands every buffered event to both writers: with events buffered,
\* either they are all handed to the writers, or a further event arrives or
\* stop() is requested first.
C32_QuietPeriodFlush ==
    \A d \in 0..MaxEvents :
        (NotYetHanded /\ delivered = d /\ ~stopEvent)
            ~> (~NotYetHanded \/ delivered > d \/ stopEvent)

(***************************************************************************)
(* Properties of the HTTP retry loop.                                      *)
(***************************************************************************)
\* C33: one flush makes at most max_retries + 1 POSTs; the wait before retry
\* k + 1 is min(max_delay, base_delay * backoff_factor^k), one wait after each
\* failed POST but the last; no POST follows a success; and the batch counts
\* as failed, its buffer kept, only when
\* max_retries + 1 POSTs have all failed, while a success clears the buffer.
C33_RetryPolicy ==
    /\ Len(hPosts) <= retry_policy.max_retries + 1
    /\ \A i \in 1..Len(hPosts) - 1 : ~hPosts[i]
    /\ \A k \in 1..Len(hSleeps) :
          hSleeps[k] = Min(retry_policy.max_delay,
                           retry_policy.base_delay * Pow(retry_policy.backoff_factor, k - 1))
    /\ Len(hSleeps) = IF hPc \in {"sleep", "post"} \/ hPosts = <<>> THEN Len(hPosts)
                      ELSE Len(hPosts) - 1
    /\ hResult = "failed" =>
          /\ Len(hPosts) = retry_policy.max_retries + 1
          /\ \A i \in 1..Len(hPosts) : ~hPosts[i]
          /\ hBuffer
    /\ hResult = "sent" => hPosts[Len(hPosts)] /\ ~hBuffer
    /\ (hResult = "none" /\ hPc # "new" /\ hPosts # <<>>) => hBuffer

\* C33 witness: a flush has failed after three retries, the last wait cut to
\* max_delay.
C33_Witness ==
    /\ hResult = "failed"
    /\ Len(hPosts) = 4
    /\ hSleeps[3] = retry_policy.max_delay
    /\ hSleeps[3] < retry_policy.base_delay * Pow(retry_policy.backoff_factor, 2)

(***************************************************************************)
(* Properties of the broadcast subscription's lifetime.                    *)
(***************************************************************************)
\* s's queue is in the registry.
Registered(s) == \E t \in Topics : \E i \in 1..Len(subscriptions[t]) : subscriptions[t][i] = s

\* A publish call that resolves its targets now would put to s's queue.
WouldEnqueue(s) == \E ty \in EventTypes : \E i \in 1..Len(Targets(ty)) : Targets(ty)[i] = s

\* C34: a subscriber's queue is registered under its topic from subscribe()
\* until the sequence is closed or dropped, and not after: once it is closed,
\* iterated or not, the registry does not hold the queue and publish does not
\* enqueue to it.
C34_SubscriptionLifetime ==
    \A s \in BSubscribers :
        /\ Live(s) => /\ Registered(s)
                      /\ \E i \in 1..Len(subscriptions[bTopic[s]]) :
                             subscriptions[bTopic[s]][i] = s
        /\ bState[s] = "closed" => ~Registered(s) /\ ~WouldEnqueue(s)

\* The part of C34 that the code keeps: a queue is registered while its sequence
\* is open, and a sequence closed after a first next() is registered no more.
IteratedCloseUnregisters ==
    \A s \in BSubscribers :
        /\ Live(s) => Registered(s)
        /\ (bState[s] = "closed" /\ (bObserved[s] # <<>> \/ bYieldedNone[s])) => ~Registered(s)


(***************************************************************************)
(* Properties of universe sharding.                                        *)
(***************************************************************************)
\* The indices of a slice.
SliceItems(sl) == {i \in 0..(MaxItems + 1) : sl.start <= i /\ i < sl.end}

\* C35: for every item count and every total_shards >= 1 the slices of shard_id
\* 0..T-1 are contiguous, pairwise disjoint, differ in size by at most one and
\* together equal [0, n).
C35_ShardsCoverDisjoint ==
    LET k == Len(shardSlices)
        size(i) == shardSlices[i].end - shardSlices[i].start
    IN  /\ \A i \in 1..k : /\ 0 <= shardSlices[i].start
                           /\ shardSlices[i].start <= shardSlices[i].end
                           /\ shardSlices[i].end <= total_items
        /\ k > 0 => shardSlices[1].start = 0
        /\ \A i \in 1..(k - 1) : shardSlices[i + 1].start = shardSlices[i].end
        /\ \A i, j \in 1..k :
              /\ i # j => SliceItems(shardSlices[i]) \cap SliceItems(shardSlices[j]) = {}
              /\ size(i) - size(j) <= 1
        /\ (total_shards > 0 /\ k = total_shards) =>
              UNION {SliceItems(shardSlices[i]) : i \in 1..k} = {i \in 0..MaxItems : i < total_items}

\* Every worker of five has its slice of a universe of three: the last two are empty.
C35_Witness ==
    /\ total_items = 3 /\ total_shards = 5 /\ Len(shardSlices) = 5
    /\ shardSlices[3] = [start |-> 2, end |-> 3]
    /\ shardSlices[4] = [start |-> 3, end |-> 3]
    /\ shardSlices[5] = [start |-> 3, end |-> 3]

(***************************************************************************)
(* Properties of the SBE decoder.                                          *)
(***************************************************************************)
\* C36: every read either succeeds and has advanced the offset by exactly the
\* bytes it consumed, or fails with buffer underflow and leaves the offset where
\* it was before the call; the offset never exceeds the buffer length.
C36_DecoderBounds ==
    /\ dOffset <= dLimit
    /\ dLast.outcome = "ok" => dOffset = dLast.before + dLast.size
    /\ dLast.outcome = "underflow" => dOffset = dLast.before

\* The part of C36 that the code keeps: the offset stays within the buffer, every
\* read that succeeds has advanced it by what it consumed, every failed read but
\* that of a group's body leaves it in place, and a group whose body is short
\* leaves it behind the group header.
DecoderBoundsButGroupBody ==
    /\ 0 <= dOffset /\ dOffset <= dLimit
    /\ dLast.outcome = "ok" => dOffset = dLast.before + dLast.size
    /\ (dLast.outcome = "underflow" /\ dLast.op # "groups") =>
          dOffset = dLast.before /\ dLast.before + dLast.size > dLimit
    /\ (dLast.outcome = "underflow" /\ dLast.op = "groups") =>
          \/ dOffset = dLast.before /\ dLast.before + SBE_GROUP_HEADER_SIZE > dLimit
          \/ dOffset = dLast.before + SBE_GROUP_HEADER_SIZE
    /\ dLast.outcome = "running" =>
          dOffset = dLast.before + dLast.size - dGroupLeft * dBlockSize

(***************************************************************************)
(* Properties of the ingestion worker at shutdown.                         *)
(***************************************************************************)
\* C37: when run_forever has returned, every event the worker took from the
\* subscription has been handed to write_batch of both writers, also when
\* stop() came while the worker was waiting for or had just received it.
C37_NoEventLostAtShutdown ==
    wpc = "done" => /\ HandedCount(rawHanded) = delivered
                    /\ HandedCount(chHanded) = delivered

\* The part of C37 that the code keeps: every event that reached the buffers is
\* handed to both writers before run_forever returns, and at most the one event
\* that next(events) returned after stop() is missing.
BufferedHandedAtShutdown ==
    wpc = "done" => /\ HandedCount(rawHanded) = Len(buffered)
                    /\ HandedCount(chHanded) = Len(buffered)
                    /\ delivered - Len(buffered) <= 1
                    /\ delivered > Len(buffered) => stopEvent

(***************************************************************************)
(* Properties of the strategy's chase count and of the state FILLED.       *)
(***************************************************************************)
\* C38: starting from chase_count = 0, chase_count never exceeds
\* max_chase_round, whatever on_tick calls and external transitions of the
\* order state happen.
C38_ChaseCap == state # "none" => chase_count <= config.max_chase_round

\* Every round has been used, the order went back to WORKING from outside, and
\* the next tick with the bid above the order price gave CANCEL instead of a chase.
C38_Witness ==
    /\ lastTick # <<>>
    /\ lastTick[1].state = "WORKING"
    /\ lastTick[1].chase_count = config.max_chase_round
    /\ config.max_chase_round > 0
    /\ lastTick[1].requests # <<>>
    /\ lastTick[1].requests[1].action = "CANCEL"
    /\ chase_count = config.max_chase_round
    /\ state = "IDLE"

\* C39: a call of on_tick that finds the order state FILLED returns no
\* OrderRequest, whatever the top of book and the OFI input, and leaves state,
\* chase_count and order_price as they were.
C39_FilledTerminal ==
    \A t \in {lastTick[i] : i \in DOMAIN lastTick} :
        t.state = "FILLED" =>
            /\ t.requests = <<>>
            /\ state = t.state
            /\ chase_count = t.chase_count
            /\ order_price = t.order_price

\* What the code does with FILLED: on_tick never puts an order into FILLED, and
\* it treats an order it finds FILLED by the rules it has for WORKING.
FilledTreatedAsWorking ==
    \A t \in {lastTick[i] : i \in DOMAIN lastTick} :
        /\ t.state # "FILLED" => state # "FILLED"
        /\ t.state = "FILLED" =>
              LET r == RuleOutcome(t.chase_count, t.order_price, prev_state[1].bid_price, t.ofi)
              IN  TickOutcome(t) = IF r.requests = <<>> THEN [r EXCEPT !.state = "FILLED"] ELSE r

(***************************************************************************)
(* Properties of the tracking of live subscriptions.                       *)
(***************************************************************************)
\* The subscribe call of quote type c[2] for key c[1] that session x accepted is
\* covered by the tracking map: the key is tracked, and on that session.
Covered(x, c) == subscribed[c[1]] # -1 /\ SessionOf(subscribed[c[1]]) = x

\* C40: before anything is unsubscribed, each broker subscribe call that
\* succeeded is covered by an entry of the tracking map, also when the bidask
\* subscribe of a contract fails after its tick subscribe succeeded and when two
\* workers handle the same key.
C40_EveryLiveTracked ==
    unsubLog = <<>> =>
        \A x \in Indices, c \in Keys \X QuoteTypes : active[x][c] > 0 => Covered(x, c)

\* The part of C40 that the code keeps: with no broker call raising and no key
\* twice in the plan, every subscription that is live is tracked on its session.
LiveTrackedWithoutFailureOrDuplicate ==
    (unsubLog = <<>> /\ ~brokerRaised /\ NoDuplicates(plan)) =>
        \A x \in Indices, c \in Keys \X QuoteTypes :
            active[x][c] > 0 => Covered(x, c) /\ active[x][c] = 1

====
